---- MODULE Spec2Model ----
(***************************************************************************)
(* A model of the tutorial's example scripts (ai-tutorial/typescript-      *)
(* examples): how each script's main is started and how it ends, the       *)
(* retry chain of prompt_chaining_advanced.ts, the reranking pipeline of   *)
(* cross_encoder_reranking.ts, the POST /mcp handler of the MCP servers,   *)
(* and the BM25 and reciprocal-rank-fusion functions.                      *)
(***************************************************************************)
EXTENDS Integers, Sequences, FiniteSets, TLC

VARIABLES
    \* ---- the scripts of the corpus, one process run (SpecCorpus)
    script,          \* the file that is run
    pc,              \* where the process is
    step,            \* index (1-based) of main's current step
    attemptNo,         \* attemptNo number of the current step (retry loops)
    lastFailed,      \* index of the step whose attemptNo threw most recently, 0 if none
    ranAfterFailure, \* an attemptNo or a later step began after some step had thrown
    logged,          \* an error was written to the console
    exitCode,        \* -1 while the process lives, else the exit code
    currentPos,      \* semanticChunking: the scan position
    nChunks,         \* semanticChunking: chunks pushed so far (saturating)
    escaped,         \* an error left main (main's promise rejected)
    served,          \* MCP server: requests answered so far (saturating)
    \* ---- promptChainWithRetry (SpecChain)
    maxRetries,      \* the parameter
    chainPc,         \* "classify", "extract", "respond", "done", "aborted"
    attempt,         \* the loop variable of the current retry loop
    intent,          \* let intent
    extractedInfo,   \* let extractedInfo
    response,        \* let response
    calls,           \* calls made so far of each step function
    threw,           \* how many of them threw
    \* ---- the async functions that call the LLM and embedding APIs (SpecAsync)
    program,         \* the script whose main runs
    stage,           \* the stage of main that is next or in progress
    phase,           \* "ready": the stage is about to begin, "busy": it has begun
    sub,             \* the loop index inside the stage
    nItems,          \* number of candidates, reasoning paths or document chunks
    inflight,        \* the requests issued and not yet answered
    rejected,        \* the requests that failed and whose rejection nothing has observed yet
    began,           \* the stages that have begun, in order
    completed,       \* the stages that have completed, in order
    answerCalls,     \* calls of chat.completions.create made by generateAnswer
    \* ---- the POST /mcp handler of customer_support_mcp_server.ts (SpecMcp)
    reqPc,           \* where the handling of each request is
    serverTransport, \* the request whose transport `mcp` is connected to, 0: none
    connectGuarded,  \* whether connect of the installed SDK refuses a connected server
    \* ---- BM25Retriever of bm25_retrieval.ts (SpecBM25)
    bmPc,            \* "new", "search", "scored"
    corpus,          \* this.corpus: the documents, each a sequence of words
    query,           \* the query text
    tokenizedCorpus, \* this.tokenizedCorpus
    docLengths,      \* this.docLengths
    avgdl,           \* this.avgdl
    idf,             \* this.idf: token -> the argument x of Math.log(x)
    tokenizedQuery,  \* search: tokenizedQuery
    scores,          \* search: scores[i], as the coefficient of each stored logarithm
    docIndex,        \* search: i (1-based)
    tokenIndex,      \* search: position of `token` in tokenizedQuery
    \* ---- rrfFuse of search_hybrid.ts (SpecRRF)
    rrfPc,           \* "fusing", "returned"
    listA,           \* first ranked list: items [document, rank]
    listB,           \* second ranked list
    rrfK,            \* the parameter k
    rrfScores,       \* own properties of `scores` in insertion order: [key, value]
    rrfPos,          \* how many items addScores has processed
    fused,           \* the array returned
    \* ---- cascadedClassification of part_008 (SpecCascade)
    casPc,           \* "start", "cheap_called", "expensive_called", "returned", "failed"
    confidenceThreshold, \* the parameter, a ratio
    cheapContent,    \* content of the cheap model's response: a sequence of words
    parsed,          \* parseResponse(cheapContent)
    modelCalls,      \* the models called so far, in order
    result,          \* the value returned
    \* ---- the tool handlers of customer_support_mcp_server.ts (SpecTools)
    toolName,        \* the tool called last, "" before the first call
    toolArgs,        \* its arguments
    toolResponse,    \* the JSON text it returned: field -> kind of value
    toolsServed,     \* tool calls handled so far
    \* ---- runWeatherAgent of weather_agent.ts (SpecAgent)
    agentPc,         \* "start", "invoked", "tool_running", "final_invoked", "returned", "failed"
    tool_calls,      \* response.tool_calls of the first response: [id, city, units]
    executedCalls,   \* ids of the tool calls that weatherTool has executed
    messages,        \* the messages passed to the second model.invoke
    modelInvocations,\* invocations of the model so far
    \* ---- the demonstrations of prompt_injection.ts (SpecInjection)
    injPc,           \* "vulnerable", "vulnerable_sent", "protected", "protected_sent", "done", "type_error"
    userInput,       \* the user input: a sequence of pieces of text and markup
    sentPrompts,     \* the prompts sent to the model: [by, content]
    \* ---- run.ts (SpecRunner)
    runPc,           \* "start", "execute", "executing", "caught", "exited"
    argvFile,        \* a file path was given on the command line
    configFile,      \* env/run.conf: "missing", "empty", "no_file", "empty_path", "ok"
    hasPackageJson,  \* the directory of the target file holds a package.json
    installFails,    \* npm install in that directory would fail
    commands,        \* the commands run.ts has run, in order
    runExit,         \* -1 while run.ts lives, else its exit code
    \* ---- fixedSizeChunking (SpecFixed)
    fixedPc,         \* "loop", "returned"
    fixedText,       \* fixedSizeChunking: text, each character named by its index
    fixedChunkSize,  \* fixedSizeChunking: chunkSize
    fixedOverlap,    \* fixedSizeChunking: overlap
    start,           \* fixedSizeChunking: start
    chunks,          \* fixedSizeChunking: chunks
    \* ---- BM25Retriever.search, its result (SpecBM25)
    rankPc,          \* search: "pending" until it returns, then "returned"
    topK,            \* search: topK
    results,         \* search: the array it returns
    \* ---- rerankWithCrossEncoder (SpecRerank)
    rerankPc,        \* "start", "await_query", "await_all", "returned", "failed"
    candidates,      \* rerankWithCrossEncoder: candidates
    responses,       \* request -> its state and the embedding returned; request 0 is the query's
    arrival,         \* the candidate requests that have completed, in order of completion
    reranked         \* rerankWithCrossEncoder: the array it returns

corpusVars == <<script, pc, step, attemptNo, lastFailed, ranAfterFailure, logged,
                exitCode, currentPos, nChunks, escaped, served>>

chainVars == <<maxRetries, chainPc, attempt, intent, extractedInfo, response, calls, threw>>

asyncVars == <<program, stage, phase, sub, nItems, inflight, rejected, began, completed,
               answerCalls>>

mcpVars == <<reqPc, serverTransport, connectGuarded>>

bm25Vars == <<bmPc, corpus, query, tokenizedCorpus, docLengths, avgdl, idf, tokenizedQuery,
              scores, docIndex, tokenIndex>>

rrfVars == <<rrfPc, listA, listB, rrfK, rrfScores, rrfPos, fused>>

cascadeVars == <<casPc, confidenceThreshold, cheapContent, parsed, modelCalls, result>>

toolVars == <<toolName, toolArgs, toolResponse, toolsServed>>

agentVars == <<agentPc, tool_calls, executedCalls, messages, modelInvocations>>

injectionVars == <<injPc, userInput, sentPrompts>>

runnerVars == <<runPc, argvFile, configFile, hasPackageJson, installFails, commands, runExit>>

fixedVars == <<fixedPc, fixedText, fixedChunkSize, fixedOverlap, start, chunks>>

rankVars == <<rankPc, topK, results>>

rerankVars == <<rerankPc, candidates, responses, arrival, reranked>>

vars == <<corpusVars, chainVars, asyncVars, mcpVars, bm25Vars, rrfVars, cascadeVars, toolVars, agentVars, injectionVars, runnerVars, fixedVars, rankVars, rerankVars>>

\* what each specification leaves alone
notCorpus == <<chainVars, asyncVars, mcpVars, bm25Vars, rrfVars, cascadeVars, toolVars, agentVars, injectionVars, runnerVars, fixedVars, rankVars, rerankVars>>
notChain == <<corpusVars, asyncVars, mcpVars, bm25Vars, rrfVars, cascadeVars, toolVars, agentVars, injectionVars, runnerVars, fixedVars, rankVars, rerankVars>>
notAsync == <<corpusVars, chainVars, mcpVars, bm25Vars, rrfVars, cascadeVars, toolVars, agentVars, injectionVars, runnerVars, fixedVars, rankVars, rerankVars>>
notMcp == <<corpusVars, chainVars, asyncVars, bm25Vars, rrfVars, cascadeVars, toolVars, agentVars, injectionVars, runnerVars, fixedVars, rankVars, rerankVars>>
notBM25 == <<corpusVars, chainVars, asyncVars, mcpVars, rrfVars, cascadeVars, toolVars, agentVars, injectionVars, runnerVars, fixedVars, rankVars, rerankVars>>
notRRF == <<corpusVars, chainVars, asyncVars, mcpVars, bm25Vars, cascadeVars, toolVars, agentVars, injectionVars, runnerVars, fixedVars, rankVars, rerankVars>>
notCascade == <<corpusVars, chainVars, asyncVars, mcpVars, bm25Vars, rrfVars, toolVars, agentVars, injectionVars, runnerVars, fixedVars, rankVars, rerankVars>>
notTools == <<corpusVars, chainVars, asyncVars, mcpVars, bm25Vars, rrfVars, cascadeVars, agentVars, injectionVars, runnerVars, fixedVars, rankVars, rerankVars>>
notAgent == <<corpusVars, chainVars, asyncVars, mcpVars, bm25Vars, rrfVars, cascadeVars, toolVars, injectionVars, runnerVars, fixedVars, rankVars, rerankVars>>
notInjection == <<corpusVars, chainVars, asyncVars, mcpVars, bm25Vars, rrfVars, cascadeVars, toolVars, agentVars, runnerVars, fixedVars, rankVars, rerankVars>>
notRunner == <<corpusVars, chainVars, asyncVars, mcpVars, bm25Vars, rrfVars, cascadeVars, toolVars, agentVars, injectionVars, fixedVars, rankVars, rerankVars>>
notFixed == <<corpusVars, chainVars, asyncVars, mcpVars, bm25Vars, rrfVars, cascadeVars, toolVars, agentVars, injectionVars, runnerVars, rankVars, rerankVars>>
notRank == <<corpusVars, chainVars, asyncVars, mcpVars, bm25Vars, rrfVars, cascadeVars, toolVars, agentVars, injectionVars, runnerVars, fixedVars, rerankVars>>
notRerank == <<corpusVars, chainVars, asyncVars, mcpVars, bm25Vars, rrfVars, cascadeVars, toolVars, agentVars, injectionVars, runnerVars, fixedVars, rankVars>>

Min(a, b) == IF a < b THEN a ELSE b
Max(a, b) == IF a > b THEN a ELSE b

(***************************************************************************)
(* Bounds of the model (not program constants).                            *)
(***************************************************************************)
MaxChunksSeen == 2      \* nChunks saturates here
MaxServed == 2          \* served saturates here
MaxRetriesArg == 2      \* promptChainWithRetry is run with maxRetries in 0..MaxRetriesArg
MaxItems == 2           \* candidates, reasoning paths or chunks: 0..MaxItems
MaxDocs == 2            \* documents given to new BM25Retriever: 0..MaxDocs
MaxListLen == 2         \* items in each list given to rrfFuse: 0..MaxListLen
MaxRank == 2            \* ranks of the items: 1..MaxRank
MaxToolCalls == 5       \* tool calls the server handles
MaxRequested == 2       \* tool calls in one model response: 0..MaxRequested
MaxPieces == 3          \* pieces of a user input: 0..MaxPieces
MaxTextLen == 3         \* fixedSizeChunking: text lengths 0..MaxTextLen
MaxChunkSize == 3       \* fixedSizeChunking: chunkSize in 1..MaxChunkSize
MaxOverlap == 3         \* fixedSizeChunking: overlap in 0..MaxOverlap
MaxTopK == 3            \* search: topK in 0..MaxTopK
MaxCandidates == 2      \* rerankWithCrossEncoder: 0..MaxCandidates candidates
NRequests == 3          \* POST /mcp requests the server receives

(***************************************************************************)
(* Steps of a script's main.  kind: "call" an awaited external request,    *)
(* "local" a computation that cannot fail, "semantic" the call of          *)
(* exampleSemantic, "listen" app.listen.  tries: attempts of the retry     *)
(* loop around the step (1: no loop).  onFail, what the code around the    *)
(* step does when the last attemptNo throws: "throw" nothing catches it      *)
(* inside main, "continue" a catch block substitutes a fallback and main   *)
(* goes on, "skip" a catch block returns from the example function and     *)
(* main goes on at step skipTo (only for a connection failure; any other   *)
(* error is rethrown).                                                     *)
(***************************************************************************)
CallSwallowed(name) == [op |-> name, kind |-> "call", tries |-> 1, onFail |-> "continue", skipTo |-> 0]
Call(name) == [op |-> name, kind |-> "call", tries |-> 1, onFail |-> "throw", skipTo |-> 0]
Guarded(name) == [op |-> name, kind |-> "call", tries |-> 1, onFail |-> "continue", skipTo |-> 0]
Retried(name, n) == [op |-> name, kind |-> "call", tries |-> n, onFail |-> "continue", skipTo |-> 0]
SkipOnConn(name, to) == [op |-> name, kind |-> "call", tries |-> 1, onFail |-> "skip", skipTo |-> to]
Local(name) == [op |-> name, kind |-> "local", tries |-> 1, onFail |-> "throw", skipTo |-> 0]
SemanticLoop(name) == [op |-> name, kind |-> "semantic", tries |-> 1, onFail |-> "throw", skipTo |-> 0]
Listen(name) == [op |-> name, kind |-> "listen", tries |-> 1, onFail |-> "throw", skipTo |-> 0]

\* promptChainWithRetry(userMessage, maxRetries = 2) as main calls it
DefaultMaxRetries == 2

\* main of each script, in source order
SearchHybridMain ==
    << Call("LexicalRetriever.create"), Call("SemanticRetriever.create"),
       Call("lexical.searchRanked"), Call("semantic.searchRanked"), Local("rrfFuse") >>

Bm25RetrievalMain ==
    << Local("BM25Retriever.search"), Call("chat.completions.create") >>

CompareSearchMain ==
    << Local("runBM25Example: BM25Retriever.search"),
       Guarded("runBM25Example: chat.completions.create"),
       SkipOnConn("runSemanticExample: retriever.init", 5),
       Call("runSemanticExample: retriever.search"),
       SkipOnConn("runHybridExample: semantic.init", 8),
       Call("runHybridExample: semantic.search"),
       Local("runHybridExample: rrfFuse") >>

RagHybridDataMain ==
    << Call("SemanticRetriever.create"), Call("classifyQuery"),
       Guarded("sqlDb.execute"), Call("docs.searchRanked"),
       Call("chat.completions.create") >>

PromptChain == << Call("classifyIntent"), Call("extractInformation"), Call("generateResponse") >>

PromptChainingAdvancedMain ==
    PromptChain \o PromptChain \o PromptChain \o
    << Retried("classifyIntent", DefaultMaxRetries),
       Retried("extractInformation", DefaultMaxRetries),
       Retried("generateResponse", DefaultMaxRetries) >>

HierarchicalSummaryMain ==
    << Call("chunk 1"), Call("chunk 2"), Call("chunk 3"), Call("chunk 4"), Call("final summary") >>

SelfConsistencyMain ==
    << Call("path 1"), Call("path 2"), Call("path 3"), Call("path 4"), Call("path 5"),
       Local("majorityVote") >>

CrossEncoderRerankingMain ==
    << Call("loadDocuments"), Call("performBM25Search"), Call("performSemanticSearch"),
       Local("reciprocalRankFusion"), Call("rerankWithCrossEncoder"), Call("generateAnswer") >>

ChunkingMain ==
    << Local("exampleFixedSize"), SemanticLoop("exampleSemantic"),
       Local("exampleStructureAware"), Local("exampleMetadata"),
       Call("filteredRetrievalExample"), Local("exampleProductionPipeline") >>

McpServerMain == << Listen("app.listen") >>

RunnerMain == << Call("readConfigFile"), Call("executeFile") >>

Scripts ==
    { "search_hybrid", "bm25_retrieval", "compare_search", "rag_hybrid_data",
      "prompt_chaining_advanced", "pdf_hierarchical_summary", "advance_self_consistency",
      "cross_encoder_reranking", "chunking", "customer_support_mcp_server",
      "weather_mcp_server", "run" }

Steps(s) ==
    CASE s = "search_hybrid" -> SearchHybridMain
      [] s = "bm25_retrieval" -> Bm25RetrievalMain
      [] s = "compare_search" -> CompareSearchMain
      [] s = "rag_hybrid_data" -> RagHybridDataMain
      [] s = "prompt_chaining_advanced" -> PromptChainingAdvancedMain
      [] s = "pdf_hierarchical_summary" -> HierarchicalSummaryMain
      [] s = "advance_self_consistency" -> SelfConsistencyMain
      [] s = "cross_encoder_reranking" -> CrossEncoderRerankingMain
      [] s = "chunking" -> ChunkingMain
      [] s \in {"customer_support_mcp_server", "weather_mcp_server"} -> McpServerMain
      [] s = "run" -> RunnerMain

(***************************************************************************)
(* How the file's last statement starts main: "catch" is                   *)
(* main().catch(console.error), "await" a top-level await main(), "bare"   *)
(* main() alone, "try" the runner's main, whose body is one try/catch      *)
(* that logs and calls process.exit(1).                                    *)
(***************************************************************************)
EntryAllCatch(s) == "catch"
Entry(s) ==
    CASE s \in {"search_hybrid", "compare_search", "rag_hybrid_data",
                "advance_self_consistency", "cross_encoder_reranking", "chunking"} -> "catch"
      [] s \in {"bm25_retrieval", "prompt_chaining_advanced", "pdf_hierarchical_summary"} -> "await"
      [] s \in {"customer_support_mcp_server", "weather_mcp_server"} -> "bare"
      [] s = "run" -> "try"

(***************************************************************************)
(* semanticChunking.  A text is a sequence of character classes: "nl" a    *)
(* newline, "sp" a space, "dot" a period, "ch" any other character; the    *)
(* function looks at nothing else.  Positions are 0-based as in the code.  *)
(***************************************************************************)
RECURSIVE Expand(_)
Expand(runs) ==
    IF runs = << >> THEN << >>
    ELSE [i \in 1..Head(runs)[2] |-> Head(runs)[1]] \o Expand(Tail(runs))

\* the template literal semanticDoc of exampleSemantic, run-length encoded
SemanticDoc ==
    Expand(<<
      <<"nl", 1>>, <<"sp", 8>>, <<"ch", 1>>, <<"sp", 1>>, <<"ch", 12>>, <<"nl", 1>>,
      <<"sp", 8>>, <<"ch", 3>>, <<"sp", 1>>, <<"ch", 8>>, <<"sp", 1>>, <<"ch", 9>>,
      <<"sp", 1>>, <<"ch", 3>>, <<"sp", 1>>, <<"ch", 10>>, <<"dot", 1>>, <<"nl", 2>>,
      <<"sp", 8>>, <<"ch", 2>>, <<"sp", 1>>, <<"ch", 3>>, <<"sp", 1>>, <<"ch", 2>>,
      <<"sp", 1>>, <<"ch", 5>>, <<"nl", 1>>, <<"sp", 8>>, <<"ch", 6>>, <<"sp", 1>>,
      <<"ch", 8>>, <<"sp", 1>>, <<"ch", 9>>, <<"sp", 1>>, <<"ch", 3>>, <<"sp", 1>>,
      <<"ch", 9>>, <<"dot", 1>>, <<"nl", 1>>, <<"sp", 8>>, <<"ch", 5>>, <<"sp", 1>>,
      <<"ch", 2>>, <<"sp", 1>>, <<"ch", 3>>, <<"sp", 1>>, <<"ch", 9>>, <<"sp", 1>>,
      <<"ch", 5>>, <<"sp", 1>>, <<"ch", 2>>, <<"sp", 1>>, <<"ch", 9>>, <<"sp", 1>>,
      <<"ch", 7>>, <<"dot", 1>>, <<"nl", 2>>, <<"sp", 8>>, <<"ch", 2>>, <<"sp", 1>>,
      <<"ch", 8>>, <<"nl", 1>>, <<"sp", 8>>, <<"ch", 1>>, <<"sp", 1>>, <<"ch", 7>>,
      <<"sp", 1>>, <<"ch", 9>>, <<"sp", 1>>, <<"ch", 2>>, <<"sp", 1>>, <<"ch", 6>>,
      <<"sp", 1>>, <<"ch", 9>>, <<"nl", 1>>, <<"sp", 8>>, <<"ch", 1>>, <<"sp", 1>>,
      <<"ch", 7>>, <<"sp", 1>>, <<"ch", 14>>, <<"nl", 1>>, <<"sp", 8>>, <<"ch", 1>>,
      <<"sp", 1>>, <<"ch", 7>>, <<"sp", 1>>, <<"ch", 6>>, <<"sp", 1>>, <<"ch", 8>>,
      <<"nl", 1>>, <<"sp", 4>> >>)

\* semanticChunking(semanticDoc, 100): chunkSize 100, chunkOverlap its default 200
ExampleChunkSize == 100
DefaultChunkOverlap == 200

separators == << <<"nl", "nl">>, <<"nl">>, <<"dot", "sp">>, <<"sp">>, << >> >>

\* String.prototype.lastIndexOf(sep, from): the greatest index <= from at which
\* sep occurs, -1 if none; the empty string occurs at every index up to the length
LastIndexOf(text, sep, from) ==
    LET last == Min(from, Len(text) - Len(sep))
        hits == { i \in 0..last : \A j \in 1..Len(sep) : text[i + j] = sep[j] }
    IN  IF hits = {} THEN -1 ELSE CHOOSE i \in hits : \A k \in hits : k <= i

\* String.prototype.slice(from, to), Array.prototype.slice(from, to): a negative index counts from the end,
\* both are clipped to the string
Slice(str, from, to) ==
    LET clip(x) == IF x < 0 THEN Max(Len(str) + x, 0) ELSE Min(x, Len(str))
    IN  SubSeq(str, clip(from) + 1, clip(to))

\* the for loop over separators: the first separator found after currentPos decides
RECURSIVE BestSplitFrom(_, _, _, _)
BestSplitFrom(text, chunkSize, pos, k) ==
    IF k > Len(separators) THEN pos + chunkSize
    ELSE LET sep == separators[k]
             searchPos == LastIndexOf(text, sep, pos + chunkSize)
         IN  IF searchPos > pos
             THEN (IF sep = << >> THEN pos + chunkSize ELSE searchPos + Len(sep))
             ELSE BestSplitFrom(text, chunkSize, pos, k + 1)

BestSplit(text, chunkSize, pos) == BestSplitFrom(text, chunkSize, pos, 1)

\* one iteration of the while loop: the position the next iteration starts at
NextPos(text, chunkSize, chunkOverlap, pos) ==
    Max(BestSplit(text, chunkSize, pos) - chunkOverlap, 0)

\* text.slice(pos, bestSplit) is pushed only when it is not empty
ChunkPushed(text, chunkSize, pos) ==
    Min(BestSplit(text, chunkSize, pos), Len(text)) > pos

(***************************************************************************)
(* One run of one script.                                                  *)
(***************************************************************************)
ChainIdle ==
    /\ maxRetries = 0
    /\ chainPc = "idle"
    /\ attempt = 0
    /\ intent = ""
    /\ extractedInfo = ""
    /\ response = ""
    /\ calls = 0
    /\ threw = 0

AsyncIdle ==
    /\ program = "none"
    /\ stage = "none"
    /\ phase = "ready"
    /\ sub = 0
    /\ nItems = 0
    /\ inflight = {}
    /\ rejected = {}
    /\ began = << >>
    /\ completed = << >>
    /\ answerCalls = 0

Requests == 1..NRequests

McpIdle ==
    /\ reqPc = [r \in Requests |-> "idle"]
    /\ serverTransport = 0
    /\ connectGuarded = FALSE

RRFIdle ==
    /\ rrfPc = "idle"
    /\ listA = << >>
    /\ listB = << >>
    /\ rrfK = 0
    /\ rrfScores = << >>
    /\ rrfPos = 0
    /\ fused = << >>

BM25Idle ==
    /\ bmPc = "idle"
    /\ corpus = << >>
    /\ query = << >>
    /\ tokenizedCorpus = << >>
    /\ docLengths = << >>
    /\ avgdl = <<0, 0>>
    /\ idf = << >>
    /\ tokenizedQuery = << >>
    /\ scores = << >>
    /\ docIndex = 0
    /\ tokenIndex = 0

CascadeIdle ==
    /\ casPc = "idle"
    /\ confidenceThreshold = <<0, 1>>
    /\ cheapContent = << >>
    /\ parsed = [sentiment |-> "", confidence |-> <<0, 1>>]
    /\ modelCalls = << >>
    /\ result = [sentiment |-> "", model |-> ""]

ToolsIdle ==
    /\ toolName = ""
    /\ toolArgs = << >>
    /\ toolResponse = << >>
    /\ toolsServed = 0

AgentIdle ==
    /\ agentPc = "idle"
    /\ tool_calls = << >>
    /\ executedCalls = {}
    /\ messages = << >>
    /\ modelInvocations = 0

InjectionIdle ==
    /\ injPc = "idle"
    /\ userInput = << >>
    /\ sentPrompts = << >>

RunnerIdle ==
    /\ runPc = "idle"
    /\ argvFile = FALSE
    /\ configFile = "ok"
    /\ hasPackageJson = FALSE
    /\ installFails = FALSE
    /\ commands = << >>
    /\ runExit = -1

FixedIdle ==
    /\ fixedPc = "idle"
    /\ fixedText = << >>
    /\ fixedChunkSize = 0
    /\ fixedOverlap = 0
    /\ start = 0
    /\ chunks = << >>

RankIdle ==
    /\ rankPc = "idle"
    /\ topK = 0
    /\ results = << >>

RerankIdle ==
    /\ rerankPc = "idle"
    /\ candidates = << >>
    /\ responses = << >>
    /\ arrival = << >>
    /\ reranked = << >>

CorpusIdle ==
    /\ script = "none"
    /\ pc = "idle"
    /\ step = 1
    /\ attemptNo = 1
    /\ lastFailed = 0
    /\ ranAfterFailure = FALSE
    /\ logged = FALSE
    /\ exitCode = -1
    /\ currentPos = 0
    /\ nChunks = 0
    /\ escaped = FALSE
    /\ served = 0

InitCorpus ==
    /\ RerankIdle
    /\ RankIdle
    /\ FixedIdle
    /\ RunnerIdle
    /\ InjectionIdle
    /\ AgentIdle
    /\ ToolsIdle
    /\ CascadeIdle
    /\ ChainIdle
    /\ AsyncIdle
    /\ McpIdle
    /\ BM25Idle
    /\ RRFIdle
    /\ script \in Scripts
    /\ pc = "start"
    /\ step = 1
    /\ attemptNo = 1
    /\ lastFailed = 0
    /\ ranAfterFailure = FALSE
    /\ logged = FALSE
    /\ exitCode = -1
    /\ currentPos = 0
    /\ nChunks = 0
    /\ escaped = FALSE
    /\ served = 0

Cur == Steps(script)[step]

\* an open server socket keeps the process alive after main has returned
KeepsAliveAlways(s) == TRUE
KeepsAlive(s) == \E i \in 1..Len(Steps(s)) : Steps(s)[i].kind = "listen"

\* main goes on at step next, or returns when there is none
Advance(next) ==
    IF next > Len(Steps(script))
    THEN /\ pc' = IF KeepsAlive(script) THEN "listening" ELSE "settled"
         /\ UNCHANGED <<step, attemptNo, ranAfterFailure>>
    ELSE /\ step' = next
         /\ attemptNo' = 1
         /\ ranAfterFailure' = (ranAfterFailure \/ lastFailed' # 0)
         /\ pc' = pc

\* the file's last statement calls main
RunMain ==
    /\ pc = "start"
    /\ pc' = "main"
    /\ UNCHANGED <<script, step, attemptNo, lastFailed, ranAfterFailure, logged, exitCode,
                   currentPos, nChunks, escaped, served>>
    /\ UNCHANGED notCorpus

\* the current step completes
StepReturns ==
    /\ pc = "main"
    /\ Cur.kind \in {"call", "local", "listen"}
    /\ lastFailed' = lastFailed
    /\ Advance(step + 1)
    /\ UNCHANGED <<script, logged, exitCode, currentPos, nChunks, escaped, served>>
    /\ UNCHANGED notCorpus

\* the current step throws inside a retry loop that has attempts left
StepThrowsRetried ==
    /\ pc = "main"
    /\ Cur.kind = "call"
    /\ attemptNo < Cur.tries
    /\ attemptNo' = attemptNo + 1
    /\ lastFailed' = step
    /\ ranAfterFailure' = TRUE
    /\ UNCHANGED <<script, pc, step, logged, exitCode, currentPos, nChunks, escaped, served>>
    /\ UNCHANGED notCorpus

\* the last attemptNo throws and the catch block lets main go on with a fallback
StepThrowsFallback ==
    /\ pc = "main"
    /\ Cur.kind = "call"
    /\ attemptNo >= Cur.tries
    /\ Cur.onFail = "continue"
    /\ lastFailed' = step
    /\ Advance(step + 1)
    /\ UNCHANGED <<script, logged, exitCode, currentPos, nChunks, escaped, served>>
    /\ UNCHANGED notCorpus

\* a connection failure: the catch block returns from the example function
StepThrowsSkips ==
    /\ pc = "main"
    /\ Cur.kind = "call"
    /\ Cur.onFail = "skip"
    /\ lastFailed' = step
    /\ Advance(Cur.skipTo)
    /\ UNCHANGED <<script, logged, exitCode, currentPos, nChunks, escaped, served>>
    /\ UNCHANGED notCorpus

\* the step throws and nothing around it handles the error (a "skip" block
\* rethrows every error that is no connection failure)
StepThrowsEscapes ==
    /\ pc = "main"
    /\ Cur.kind = "call"
    /\ Cur.onFail \in {"throw", "skip"}
    /\ lastFailed' = step
    /\ pc' = IF Entry(script) = "try" THEN "caught" ELSE "rejected"
    /\ escaped' = (Entry(script) # "try")
    /\ UNCHANGED <<script, step, attemptNo, ranAfterFailure, logged, exitCode, currentPos,
                   nChunks, served>>
    /\ UNCHANGED notCorpus

\* exampleSemantic -> semanticChunking: the test of the while condition
SemanticChunkingTest ==
    /\ pc = "main"
    /\ Cur.kind = "semantic"
    /\ lastFailed' = lastFailed
    /\ IF currentPos < Len(SemanticDoc)
       THEN /\ pc' = "loop_body"
            /\ UNCHANGED <<step, attemptNo, ranAfterFailure>>
       ELSE Advance(step + 1)
    /\ UNCHANGED <<script, logged, exitCode, currentPos, nChunks, escaped, served>>
    /\ UNCHANGED notCorpus

\* semanticChunking: one iteration of the while loop
SemanticChunkingBody ==
    /\ pc = "loop_body"
    /\ currentPos' = NextPos(SemanticDoc, ExampleChunkSize, DefaultChunkOverlap, currentPos)
    /\ nChunks' = IF ChunkPushed(SemanticDoc, ExampleChunkSize, currentPos)
                  THEN Min(nChunks + 1, MaxChunksSeen) ELSE nChunks
    /\ pc' = "main"
    /\ UNCHANGED <<script, step, attemptNo, lastFailed, ranAfterFailure, logged, exitCode,
                   escaped, served>>
    /\ UNCHANGED notCorpus

\* main().catch(console.error): the handler prints the error, nothing else
CatchConsoleError ==
    /\ pc = "rejected"
    /\ Entry(script) = "catch"
    /\ logged' = TRUE
    /\ pc' = "settled"
    /\ UNCHANGED <<script, step, attemptNo, lastFailed, ranAfterFailure, exitCode, currentPos,
                   nChunks, escaped, served>>
    /\ UNCHANGED notCorpus

\* await main() or main(): nothing handles the rejection; the runtime prints the
\* error and ends the process with code 1
UncaughtRejection ==
    /\ pc = "rejected"
    /\ Entry(script) \in {"await", "bare"}
    /\ logged' = TRUE
    /\ exitCode' = 1
    /\ pc' = "exited"
    /\ UNCHANGED <<script, step, attemptNo, lastFailed, ranAfterFailure, currentPos, nChunks,
                   escaped, served>>
    /\ UNCHANGED notCorpus

\* the runner: the catch block prints the error and calls process.exit(1)
RunnerCatch ==
    /\ pc = "caught"
    /\ logged' = TRUE
    /\ exitCode' = 1
    /\ pc' = "exited"
    /\ UNCHANGED <<script, step, attemptNo, lastFailed, ranAfterFailure, currentPos, nChunks,
                   escaped, served>>
    /\ UNCHANGED notCorpus

\* nothing is left to do: the process ends with code 0
EventLoopDrains ==
    /\ pc = "settled"
    /\ exitCode' = 0
    /\ pc' = "exited"
    /\ UNCHANGED <<script, step, attemptNo, lastFailed, ranAfterFailure, logged, currentPos,
                   nChunks, escaped, served>>
    /\ UNCHANGED notCorpus

\* the server answers one request and goes on listening
ServeRequest ==
    /\ pc = "listening"
    /\ served' = Min(served + 1, MaxServed)
    /\ UNCHANGED <<script, pc, step, attemptNo, lastFailed, ranAfterFailure, logged, exitCode,
                   currentPos, nChunks, escaped>>
    /\ UNCHANGED notCorpus



\* what the process does by itself (requests to a server are the environment's)
CorpusProgress ==
    \/ RunMain
    \/ StepReturns
    \/ StepThrowsRetried
    \/ StepThrowsFallback
    \/ StepThrowsSkips
    \/ StepThrowsEscapes
    \/ SemanticChunkingTest
    \/ SemanticChunkingBody
    \/ CatchConsoleError
    \/ UncaughtRejection
    \/ RunnerCatch
    \/ EventLoopDrains

NextCorpus ==
    \/ CorpusProgress
    \/ ServeRequest

\* every external call returns or throws, and the runtime runs what is runnable
SpecCorpus == InitCorpus /\ [][NextCorpus]_vars /\ WF_vars(CorpusProgress)

(***************************************************************************)
(* Claims about the corpus of scripts.                                     *)
(***************************************************************************)

\* C3, as stated: whenever an error escapes a script's main, the error is logged
\* to the console and the process then exits with a non-zero exit code.
C3_Original == (pc = "exited" /\ escaped) => (logged /\ exitCode # 0)

\* C3, amended: an error that escapes main is always logged; the exit code is
\* non-zero in the scripts started with a top-level await main(), and in the
\* runner, whose own catch block logs and calls process.exit(1).
C3_LoggedAndExitCode ==
    /\ (pc = "exited" /\ escaped) => logged
    /\ (pc = "exited" /\ escaped /\ script \in {"bm25_retrieval", "prompt_chaining_advanced",
                                              "pdf_hierarchical_summary"}) => exitCode # 0
    /\ (pc = "exited" /\ script = "run" /\ lastFailed # 0) => (logged /\ exitCode = 1)

C3_Witness ==
    /\ pc = "exited" /\ escaped /\ script = "bm25_retrieval"
    /\ logged /\ exitCode = 1

C5_Original == <>(pc = "exited")

\* C5, amended: main's steps run in source order, and every script other than the
\* two MCP servers (which go on listening) and the chunking demo (whose call of
\* exampleSemantic never returns) ends its process.
C5_LinearScriptsTerminate ==
    /\ [][step' >= step]_vars
    /\ (script \notin {"customer_support_mcp_server", "weather_mcp_server", "chunking"})
          => <>(pc = "exited")

C5_Witness ==
    /\ script = "pdf_hierarchical_summary" /\ pc = "exited"
    /\ step = Len(HierarchicalSummaryMain) /\ lastFailed = 0 /\ exitCode = 0

(***************************************************************************)
(* promptChainWithRetry(userMessage, maxRetries).  The content of a model  *)
(* response is drawn from a few strings that reach every branch; a call    *)
(* may also throw (a network or API error).                                *)
(***************************************************************************)
UserMessage == "I need urgent help with my account - it's been locked!"

ValidCategories == {"question", "request", "complaint", "feedback", "other"}

\* message.content of a classification response ("" stands for null or empty)
ClassifyContents == {"", "  ", " Request\n", "other", "COMPLAINT", "Greeting"}

\* classifyIntent: (content || 'other').trim().toLowerCase()
Category(content) ==
    CASE content = "" -> "other"
      [] content = "  " -> ""
      [] content = " Request\n" -> "request"
      [] content = "other" -> "other"
      [] content = "COMPLAINT" -> "complaint"
      [] content = "Greeting" -> "greeting"

\* let intent = 'other'
DefaultIntent == "other"

\* let extractedInfo = { mainTopic: 'unknown', urgency: 'medium', keyDetails: userMessage }
DefaultExtractedInfoEmpty == [mainTopic |-> "unknown", urgency |-> "medium", keyDetails |-> ""]
DefaultExtractedInfo == [mainTopic |-> "unknown", urgency |-> "medium", keyDetails |-> UserMessage]

\* let response = 'I apologize, ...'
Apology == "I apologize, but I was unable to generate a response."

\* message.content of an extraction response; json_object mode yields an object,
\* which may lack fields or be cut short
ExtractContents == {"", "{}", "{\"mainTopic\": \"acc", "{\"mainTopic\": \"unknown\"}",
                    "{\"mainTopic\": \"account\", \"urgency\": \"high\", \"keyDetails\": \"locked\"}"}

\* extractInformation: JSON.parse(content || '{}'), the fallback object when that throws
ParseExtraction(content) ==
    CASE content \in {"", "{}"} -> [mainTopic |-> "", urgency |-> "", keyDetails |-> ""]
      [] content = "{\"mainTopic\": \"acc" ->
            [mainTopic |-> "unknown", urgency |-> "medium", keyDetails |-> UserMessage]
      [] content = "{\"mainTopic\": \"unknown\"}" ->
            [mainTopic |-> "unknown", urgency |-> "", keyDetails |-> ""]
      [] OTHER -> [mainTopic |-> "account", urgency |-> "high", keyDetails |-> "locked"]

\* message.content of a generation response
ResponseContents == {"", "Sure.", "Your account has been unlocked; please sign in again."}

\* generateResponse: content || 'I apologize, ...'
GeneratedResponse(content) == IF content = "" THEN Apology ELSE content

\* response && response.length > 10
MinResponseLength == 10
ResponseAccepted(r) == r # "" /\ Len(r) > MinResponseLength

LoopNext(loop) ==
    CASE loop = "classify" -> "extract"
      [] loop = "extract" -> "respond"
      [] loop = "respond" -> "done"

\* for (let attempt = 0; attempt < maxRetries; attempt++): where control is after
\* an iteration of the loop has ended without a break
IterationEnds(loop) ==
    IF attempt + 1 < maxRetries
    THEN /\ attempt' = attempt + 1
         /\ chainPc' = loop
    ELSE /\ attempt' = 0
         /\ chainPc' = LoopNext(loop)

\* break
Break(loop) ==
    /\ attempt' = 0
    /\ chainPc' = LoopNext(loop)

Count(loop) == [calls EXCEPT ![loop] = @ + 1]
CountThrow(loop) == [threw EXCEPT ![loop] = @ + 1]

InitChain ==
    /\ RerankIdle
    /\ RankIdle
    /\ FixedIdle
    /\ RunnerIdle
    /\ InjectionIdle
    /\ AgentIdle
    /\ ToolsIdle
    /\ CascadeIdle
    /\ maxRetries \in 0..MaxRetriesArg
    /\ chainPc = IF maxRetries > 0 THEN "classify" ELSE "done"
    /\ attempt = 0
    /\ intent = DefaultIntent
    /\ extractedInfo = DefaultExtractedInfo
    /\ response = Apology
    /\ calls = [classify |-> 0, extract |-> 0, respond |-> 0]
    /\ threw = [classify |-> 0, extract |-> 0, respond |-> 0]
    /\ CorpusIdle
    /\ AsyncIdle
    /\ McpIdle
    /\ BM25Idle
    /\ RRFIdle

\* Step 1: intent = await classifyIntent(userMessage) returns
ClassifyReturns ==
    /\ chainPc = "classify"
    /\ \E content \in ClassifyContents :
          /\ intent' = Category(content)
          /\ IF intent' # "" /\ intent' # "other"
             THEN Break("classify")
             ELSE IterationEnds("classify")
    /\ calls' = Count("classify")
    /\ UNCHANGED <<maxRetries, extractedInfo, response, threw>>
    /\ UNCHANGED notChain

\* Step 1: classifyIntent throws; the catch block logs, and on the last attempt
\* sets the fallback
ClassifyThrows ==
    /\ chainPc = "classify"
    /\ intent' = IF attempt = maxRetries - 1 THEN "other" ELSE intent
    /\ IterationEnds("classify")
    /\ calls' = Count("classify")
    /\ threw' = CountThrow("classify")
    /\ UNCHANGED <<maxRetries, extractedInfo, response>>
    /\ UNCHANGED notChain

\* Step 2: extractedInfo = await extractInformation(userMessage, intent) returns
ExtractReturns ==
    /\ chainPc = "extract"
    /\ \E content \in ExtractContents :
          /\ extractedInfo' = ParseExtraction(content)
          /\ IF extractedInfo'.mainTopic # "" /\ extractedInfo'.mainTopic # "unknown"
             THEN Break("extract")
             ELSE IterationEnds("extract")
    /\ calls' = Count("extract")
    /\ UNCHANGED <<maxRetries, intent, response, threw>>
    /\ UNCHANGED notChain

\* Step 2: extractInformation throws; the catch block logs
ExtractThrows ==
    /\ chainPc = "extract"
    /\ IterationEnds("extract")
    /\ calls' = Count("extract")
    /\ threw' = CountThrow("extract")
    /\ UNCHANGED <<maxRetries, intent, extractedInfo, response>>
    /\ UNCHANGED notChain

\* Step 3: response = await generateResponse(...) returns
RespondReturns ==
    /\ chainPc = "respond"
    /\ \E content \in ResponseContents :
          /\ response' = GeneratedResponse(content)
          /\ IF ResponseAccepted(response')
             THEN Break("respond")
             ELSE IterationEnds("respond")
    /\ calls' = Count("respond")
    /\ UNCHANGED <<maxRetries, intent, extractedInfo, threw>>
    /\ UNCHANGED notChain

\* Step 3: generateResponse throws; the catch block logs
RespondThrows ==
    /\ chainPc = "respond"
    /\ IterationEnds("respond")
    /\ calls' = Count("respond")
    /\ threw' = CountThrow("respond")
    /\ UNCHANGED <<maxRetries, intent, extractedInfo, response>>
    /\ UNCHANGED notChain

NextChain ==
    \/ ClassifyReturns
    \/ ClassifyThrows
    \/ ExtractReturns
    \/ ExtractThrows
    \/ RespondReturns
    \/ RespondThrows

\* every call returns or throws
SpecChain == InitChain /\ [][NextChain]_vars /\ WF_vars(NextChain)

\* C9: promptChainWithRetry never lets the failure of a step abort the chain: when
\* every attempt of a step throws, the default of that step is used ('other', the
\* fallback information holding the user message, the apology); the steps run in
\* the order classify, extract, respond, each at most maxRetries times, and the
\* function returns.
C9_FallbacksUsed ==
    /\ (chainPc = "done" /\ threw.classify = calls.classify) => intent = "other"
    /\ (chainPc = "done" /\ threw.extract = calls.extract) =>
          extractedInfo = [mainTopic |-> "unknown", urgency |-> "medium",
                           keyDetails |-> UserMessage]
    /\ (chainPc = "done" /\ threw.respond = calls.respond) => response = Apology
    /\ chainPc = "classify" => (calls.extract = 0 /\ calls.respond = 0)
    /\ chainPc = "extract" => calls.respond = 0
    /\ \A loop \in {"classify", "extract", "respond"} : calls[loop] <= maxRetries

C9_ChainAlwaysCompletes == []C9_FallbacksUsed /\ <>(chainPc = "done")

C9_Witness ==
    /\ chainPc = "done" /\ maxRetries = 2
    /\ threw = [classify |-> 2, extract |-> 2, respond |-> 2]
    /\ calls = threw

\* C10: classification is retried whenever the returned category is not one of
\* question, request, complaint, feedback, other: an invalid category is never
\* accepted while attempts remain.
C10_InvalidCategoryRetried ==
    (chainPc \in {"extract", "respond", "done"} /\ intent \notin ValidCategories)
        => calls.classify >= maxRetries

\* ------------------------------------------------------------------------
\* The async functions that call the LLM and embedding APIs
\* (cross_encoder_reranking.ts, advance_self_consistency.ts,
\*  pdf_hierarchical_summary.ts)
\* ------------------------------------------------------------------------

\* a stage of a main function: kind "local" makes no request, "seq" awaits the
\* requests of reqs one after the other, "loop" awaits one request per item
\* (delay: a setTimeout is awaited after each), "fanout" starts one request per
\* item with map(async ...), awaits one more request and then Promise.all
Stage(name, kind, reqs, delay) ==
    [name |-> name, kind |-> kind, reqs |-> reqs, delay |-> delay]

\* main of cross_encoder_reranking.ts; performHybridSearch is inlined
CrossEncoderPipelineSwapped ==
    << Stage("load", "local", 0, FALSE),
       Stage("semantic", "seq", 2, FALSE),
       Stage("lexical", "local", 0, FALSE),
       Stage("fusion", "local", 0, FALSE),
       Stage("rerank", "fanout", 0, FALSE),
       Stage("answer", "seq", 1, FALSE) >>

CrossEncoderPipeline ==
    << Stage("load", "local", 0, FALSE),        \* loadDocuments
       Stage("lexical", "local", 0, FALSE),     \* await performBM25Search
       Stage("semantic", "seq", 2, FALSE),      \* SemanticRetriever.create, searchIndexes
       Stage("fusion", "local", 0, FALSE),      \* reciprocalRankFusion, slice(0, 15)
       Stage("rerank", "fanout", 0, FALSE),     \* await rerankWithCrossEncoder
       Stage("answer", "seq", 1, FALSE) >>      \* await generateAnswer

\* selfConsistency: the reduce chain over the paths, then the majority vote
SelfConsistencyPipeline ==
    << Stage("paths", "loop", 0, TRUE),
       Stage("vote", "local", 0, FALSE) >>

\* hierarchicalSummary: the map phase, then the reduce phase
HierarchicalSummaryPipeline ==
    << Stage("map", "loop", 0, FALSE),
       Stage("reduce", "seq", 1, FALSE) >>

AsyncPrograms ==
    {"cross_encoder_reranking", "advance_self_consistency", "pdf_hierarchical_summary"}

Pipeline(p) ==
    CASE p = "cross_encoder_reranking" -> CrossEncoderPipeline
      [] p = "advance_self_consistency" -> SelfConsistencyPipeline
      [] p = "pdf_hierarchical_summary" -> HierarchicalSummaryPipeline
      [] OTHER -> << >>

Request(name, idx) == [stage |-> name, idx |-> idx]

Finished == program \in AsyncPrograms /\ stage > Len(Pipeline(program)) /\ phase = "ready"

CurStage == Pipeline(program)[stage]

\* how many requests the stage awaits one after the other
Awaited(st) ==
    CASE st.kind = "seq" -> st.reqs
      [] st.kind = "loop" -> nItems
      [] OTHER -> 0

\* the requests one pass of a sequential loop starts before it awaits
LoopIssuesAll(name, i, n) == { Request(name, j) : j \in i..n }

LoopIssues(name, i, n) == { Request(name, i) }

\* the requests started when the code reaches the i-th await of the stage
Issues(st, i) ==
    CASE st.kind = "local" -> {}
      [] st.kind = "fanout" ->
            IF i = 1 THEN { Request(st.name, k) : k \in 0..nItems } ELSE {}
      [] st.kind = "loop" ->
            IF i <= nItems THEN LoopIssues(st.name, i, nItems) ELSE {}
      [] OTHER ->
            IF i <= st.reqs THEN { Request(st.name, i) } ELSE {}

AnswerRequests(rs) == Cardinality({ r \in rs : r.stage = "answer" })

InitAsync ==
    /\ RerankIdle
    /\ RankIdle
    /\ FixedIdle
    /\ RunnerIdle
    /\ InjectionIdle
    /\ AgentIdle
    /\ ToolsIdle
    /\ CascadeIdle
    /\ CorpusIdle
    /\ ChainIdle
    /\ McpIdle
    /\ BM25Idle
    /\ RRFIdle
    /\ program \in AsyncPrograms
    /\ nItems \in 0..MaxItems
    /\ stage = 1
    /\ phase = "ready"
    /\ sub = 0
    /\ inflight = {}
    /\ rejected = {}
    /\ began = << >>
    /\ completed = << >>
    /\ answerCalls = 0

\* main reaches the stage: the code runs up to the first await
BeginStage ==
    /\ phase = "ready"
    /\ stage <= Len(Pipeline(program))
    /\ began' = Append(began, CurStage.name)
    /\ phase' = "busy"
    /\ sub' = 1
    /\ inflight' = inflight \cup Issues(CurStage, 1)
    /\ answerCalls' = answerCalls + AnswerRequests(Issues(CurStage, 1))
    /\ UNCHANGED <<program, stage, nItems, rejected, completed>>
    /\ UNCHANGED notAsync

\* the awaited request of a "seq" or "loop" stage is answered: the code runs on
\* to the next await
AwaitedReturns ==
    /\ phase = "busy"
    /\ CurStage.kind \in {"seq", "loop"}
    /\ Request(CurStage.name, sub) \in inflight
    /\ IF CurStage.delay
         THEN /\ phase' = "delay"
              /\ inflight' = inflight \ {Request(CurStage.name, sub)}
              /\ UNCHANGED <<sub, answerCalls>>
         ELSE /\ phase' = "busy"
              /\ sub' = sub + 1
              /\ inflight' = (inflight \ {Request(CurStage.name, sub)})
                                \cup Issues(CurStage, sub + 1)
              /\ answerCalls' = answerCalls + AnswerRequests(Issues(CurStage, sub + 1))
    /\ UNCHANGED <<program, stage, nItems, rejected, began, completed>>
    /\ UNCHANGED notAsync

\* setTimeout(resolve, 100) fires: the callback of reduce returns and the next
\* one goes on after `await accPromise`
TimerFires ==
    /\ phase = "delay"
    /\ phase' = "busy"
    /\ sub' = sub + 1
    /\ inflight' = inflight \cup Issues(CurStage, sub + 1)
    /\ UNCHANGED <<program, stage, nItems, rejected, began, completed, answerCalls>>
    /\ UNCHANGED notAsync

\* a request of map(async ...) or the query request is answered
FanoutReturns ==
    /\ \E r \in inflight :
          /\ r.stage = "rerank"
          /\ inflight' = inflight \ {r}
          /\ phase' = IF phase = "busy" /\ r.idx = 0 /\ rejected # {}
                        THEN "failed"      \* Promise.all meets a rejected promise
                        ELSE phase
    /\ UNCHANGED <<program, stage, sub, nItems, rejected, began, completed, answerCalls>>
    /\ UNCHANGED notAsync

\* a request fails: main rejects when the code is awaiting it
RequestFails ==
    /\ \E r \in inflight :
          /\ inflight' = inflight \ {r}
          /\ IF phase = "busy" /\
                (CurStage.kind # "fanout" \/ r.idx = 0 \/ Request("rerank", 0) \notin inflight)
               THEN phase' = "failed" /\ UNCHANGED rejected
               ELSE rejected' = rejected \cup {r} /\ UNCHANGED phase
    /\ UNCHANGED <<program, stage, sub, nItems, began, completed, answerCalls>>
    /\ UNCHANGED notAsync

\* the stage has nothing left to await: its function returns
CompleteStage ==
    /\ phase = "busy"
    /\ CASE CurStage.kind = "local" -> TRUE
         [] CurStage.kind = "fanout" ->
               /\ rejected = {}
               /\ \A r \in inflight : r.stage # CurStage.name
         [] OTHER -> sub > Awaited(CurStage)
    /\ completed' = Append(completed, CurStage.name)
    /\ stage' = stage + 1
    /\ phase' = "ready"
    /\ sub' = 0
    /\ UNCHANGED <<program, nItems, inflight, rejected, began, answerCalls>>
    /\ UNCHANGED notAsync

NextAsync ==
    \/ BeginStage
    \/ AwaitedReturns
    \/ TimerFires
    \/ FanoutReturns
    \/ RequestFails
    \/ CompleteStage

SpecAsync == InitAsync /\ [][NextAsync]_vars /\ WF_vars(NextAsync)

\* C1 as stated: in every script at most one LLM or embedding request is in
\* flight at any time.
C1_Original == Cardinality(inflight) <= 1

\* C1: at most one LLM or embedding request is in flight at any time, except
\* inside rerankWithCrossEncoder: two requests are in flight together only when
\* both are embedding requests of the rerank stage, which has at most one per
\* candidate plus the one for the query; selfConsistency and hierarchicalSummary
\* always have at most one.
C1_OnlyRerankOverlaps ==
    /\ \A r1, r2 \in inflight :
          r1 # r2 => /\ program = "cross_encoder_reranking"
                     /\ r1.stage = "rerank"
                     /\ r2.stage = "rerank"
    /\ Cardinality(inflight) <= nItems + 1

C1_Witness ==
    /\ program = "pdf_hierarchical_summary"
    /\ nItems >= 2
    /\ phase = "busy"
    /\ inflight = {Request("map", 2)}

\* C8: the reranking pipeline runs its stages in the order load, lexical
\* search, semantic search, fusion, reranking, answer generation; a stage begins
\* only after the one before it has completed; the chat call of generateAnswer
\* is made at most once, only after reranking has completed, and exactly once
\* in a run that reaches the end of main.
C8_StagesInOrder ==
    program = "cross_encoder_reranking" =>
        LET order == <<"load", "lexical", "semantic", "fusion", "rerank", "answer">>
        IN  /\ Len(began) <= Len(order)
            /\ began = SubSeq(order, 1, Len(began))
            /\ Len(completed) <= Len(began)
            /\ completed = SubSeq(began, 1, Len(completed))
            /\ Len(began) <= Len(completed) + 1
            /\ answerCalls <= 1
            /\ (answerCalls = 1 => \E i \in 1..Len(completed) : completed[i] = "rerank")
            /\ (Finished => (answerCalls = 1 /\ completed = order))

C8_Witness ==
    /\ program = "cross_encoder_reranking"
    /\ Finished
    /\ nItems >= 1
    /\ answerCalls = 1

\* ------------------------------------------------------------------------
\* The POST /mcp handler (customer_support_mcp_server.ts:295-308)
\* ------------------------------------------------------------------------

\* `mcp` is created once at module level; every request creates its own
\* transport.  The dependency is "@modelcontextprotocol/sdk": "^1.25.1": connect
\* of a server that is already connected either replaces the server's transport
\* or throws, depending on the version installed.
InitMcp ==
    /\ RerankIdle
    /\ RankIdle
    /\ FixedIdle
    /\ RunnerIdle
    /\ InjectionIdle
    /\ AgentIdle
    /\ ToolsIdle
    /\ CascadeIdle
    /\ CorpusIdle
    /\ ChainIdle
    /\ AsyncIdle
    /\ BM25Idle
    /\ RRFIdle
    /\ reqPc = [r \in Requests |-> "idle"]
    /\ serverTransport = 0
    /\ connectGuarded \in BOOLEAN

\* the handler starts: new StreamableHTTPServerTransport, mcp.connect(transport)
PostMcp(r) ==
    /\ reqPc[r] = "idle"
    /\ IF connectGuarded /\ serverTransport # 0
         THEN /\ reqPc' = [reqPc EXCEPT ![r] = "rejected"]
              /\ UNCHANGED serverTransport
         ELSE /\ reqPc' = [reqPc EXCEPT ![r] = "connecting"]
              /\ serverTransport' = r
    /\ UNCHANGED connectGuarded
    /\ UNCHANGED notMcp

\* await mcp.connect resolves: res.on('close', ...) and transport.handleRequest
ConnectResolves(r) ==
    /\ reqPc[r] = "connecting"
    /\ reqPc' = [reqPc EXCEPT ![r] = "handling"]
    /\ UNCHANGED <<serverTransport, connectGuarded>>
    /\ UNCHANGED notMcp

\* await transport.handleRequest resolves: the response has been written
HandleRequestResolves(r) ==
    /\ reqPc[r] = "handling"
    /\ reqPc' = [reqPc EXCEPT ![r] = "responded"]
    /\ UNCHANGED <<serverTransport, connectGuarded>>
    /\ UNCHANGED notMcp

\* 'close' of res: transport.close(), whose onclose was installed by
\* mcp.connect and disconnects the server, or leaves it alone when the server
\* has another transport by then
ResClose(r) ==
    /\ reqPc[r] \in {"handling", "responded"}
    /\ reqPc' = [reqPc EXCEPT ![r] = "closed"]
    /\ \/ serverTransport' = 0
       \/ serverTransport # r /\ UNCHANGED serverTransport
    /\ UNCHANGED connectGuarded
    /\ UNCHANGED notMcp

NextMcp ==
    \E r \in Requests :
        \/ PostMcp(r)
        \/ ConnectResolves(r)
        \/ HandleRequestResolves(r)
        \/ ResClose(r)

SpecMcp == InitMcp /\ [][NextMcp]_vars /\ WF_vars(NextMcp)

\* C2: overlapping POST /mcp requests share no mutable state: while a request
\* is being connected or handled the server's connection is the transport of
\* that request, and no request fails because of the connection another
\* request made.
C2_RequestsIsolated ==
    \A a \in Requests :
        /\ reqPc[a] \in {"connecting", "handling"} => serverTransport = a
        /\ reqPc[a] # "rejected"

\* ------------------------------------------------------------------------
\* BM25Retriever (bm25_retrieval.ts:74-158, the same class in part_014:57-141)
\* ------------------------------------------------------------------------

\* JavaScript numbers that are ratios of integers: <<numerator, denominator>>
\* in lowest terms with a positive denominator; 0/0 is NaN and x/0 is Infinity
NaN == <<0, 0>>
Infinity == <<1, 0>>

RECURSIVE GCD(_, _)
GCD(x, y) == IF y = 0 THEN x ELSE GCD(y, x % y)

Rat(n, d) ==
    IF d = 0 THEN (IF n = 0 THEN NaN ELSE Infinity)
    ELSE LET g == GCD(IF n < 0 THEN -n ELSE n, d) IN <<n \div g, d \div g>>

Num(n) == <<n, 1>>
IsFinite(x) == x[2] # 0
RatAdd(x, y) ==
    IF IsFinite(x) /\ IsFinite(y) THEN Rat(x[1] * y[2] + y[1] * x[2], x[2] * y[2]) ELSE NaN
RatSub(x, y) ==
    IF IsFinite(x) /\ IsFinite(y) THEN Rat(x[1] * y[2] - y[1] * x[2], x[2] * y[2]) ELSE NaN
RatMul(x, y) ==
    IF IsFinite(x) /\ IsFinite(y) THEN Rat(x[1] * y[1], x[2] * y[2]) ELSE NaN
RatDiv(x, y) ==
    IF IsFinite(x) /\ IsFinite(y) THEN Rat(x[1] * y[2], x[2] * y[1]) ELSE NaN

BM25_k1 == <<3, 2>>     \* private k1: number = 1.5
BM25_b == <<3, 4>>      \* private b: number = 0.75
Half == <<1, 2>>        \* the 0.5 of calculateIDF

\* a text is a sequence of words (maximal runs without whitespace), a word a
\* sequence of characters
ToLowerCase(c) == IF c = "A" THEN "a" ELSE c
IsWordChar(c) == c \in {"a", "b", "c"}

\* text.toLowerCase().replace(/[^\w\s]/g, '').split(/\s+/).filter(length > 0)
Tokenize(text) ==
    LET lower(w) == [p \in 1..Len(w) |-> ToLowerCase(w[p])]
        strip(w) == SelectSeq(w, IsWordChar)
        words == [p \in 1..Len(text) |-> strip(lower(text[p]))]
    IN  SelectSeq(words, LAMBDA w : Len(w) > 0)

SampleDocs ==
    { << >>,
      << <<"?">> >>,
      << <<"A">>, <<"b">> >>,
      << <<"a", "?">>, <<"a">>, <<"b">> >>,
      << <<"b">> >>,
      << <<"a", "b">>, <<"?">>, <<"b">>, <<"b">> >> }

SampleQueries ==
    { << >>,
      << <<"A">> >>,
      << <<"a">>, <<"a", "?">> >>,
      << <<"b">>, <<"a">> >>,
      << <<"a", "b">>, <<"c">> >> }

RECURSIVE SeqsUpTo(_, _)
SeqsUpTo(S, n) ==
    IF n = 0 THEN { << >> }
    ELSE LET shorter == SeqsUpTo(S, n - 1)
         IN  shorter \cup { Append(q, x) : q \in shorter, x \in S }

RECURSIVE SumSeq(_)
SumSeq(q) == IF q = << >> THEN 0 ELSE q[1] + SumSeq(Tail(q))

Includes(tokens, token) == \E p \in 1..Len(tokens) : tokens[p] = token
CountOf(tokens, token) == Cardinality({ p \in 1..Len(tokens) : tokens[p] = token })

\* the idf without the "+ 1" inside the logarithm
IdfArgumentRobertson(N, n_q) ==
    RatDiv(RatAdd(RatSub(Num(N), Num(n_q)), Half), RatAdd(Num(n_q), Half))

\* the x of Math.log(x) at line 114
IdfArgument(N, n_q) ==
    RatAdd(RatDiv(RatAdd(RatSub(Num(N), Num(n_q)), Half), RatAdd(Num(n_q), Half)), Num(1))

calculateIDF(tokenized) ==
    LET N == Len(tokenized)
        allTokens == UNION { { tokenized[d][p] : p \in 1..Len(tokenized[d]) } : d \in 1..N }
        n_q(token) == Cardinality({ d \in 1..N : Includes(tokenized[d], token) })
    IN  [token \in allTokens |-> IdfArgument(N, n_q(token))]

InitBM25 ==
    /\ RerankIdle
    /\ FixedIdle
    /\ RunnerIdle
    /\ InjectionIdle
    /\ AgentIdle
    /\ ToolsIdle
    /\ CascadeIdle
    /\ CorpusIdle
    /\ ChainIdle
    /\ AsyncIdle
    /\ McpIdle
    /\ RRFIdle
    /\ bmPc = "new"
    /\ corpus \in SeqsUpTo(SampleDocs, MaxDocs)
    /\ query \in SampleQueries
    /\ tokenizedCorpus = << >>
    /\ docLengths = << >>
    /\ avgdl = NaN
    /\ idf = << >>
    /\ tokenizedQuery = << >>
    /\ scores = << >>
    /\ docIndex = 0
    /\ tokenIndex = 0
    /\ rankPc = "pending"
    /\ topK \in 0..MaxTopK
    /\ results = << >>

\* new BM25Retriever(documents)
Constructor ==
    /\ bmPc = "new"
    /\ LET tokenized == [d \in 1..Len(corpus) |-> Tokenize(corpus[d])]
           lengths == [d \in 1..Len(corpus) |-> Len(tokenized[d])]
       IN  /\ tokenizedCorpus' = tokenized
           /\ docLengths' = lengths
           /\ avgdl' = RatDiv(Num(SumSeq(lengths)), Num(Len(corpus)))
           /\ idf' = calculateIDF(tokenized)
    /\ bmPc' = "constructed"
    /\ UNCHANGED <<corpus, query, tokenizedQuery, scores, docIndex, tokenIndex>>
    /\ UNCHANGED notBM25

\* search: lines 121-122
SearchBegins ==
    /\ bmPc = "constructed"
    /\ tokenizedQuery' = Tokenize(query)
    /\ scores' = [d \in 1..Len(corpus) |-> [x \in { idf[t] : t \in DOMAIN idf } |-> Num(0)]]
    /\ docIndex' = 1
    /\ tokenIndex' = 1
    /\ bmPc' = "search"
    /\ UNCHANGED <<corpus, query, tokenizedCorpus, docLengths, avgdl, idf>>
    /\ UNCHANGED notBM25

InInnerLoop ==
    /\ bmPc = "search"
    /\ docIndex <= Len(corpus)
    /\ tokenIndex <= Len(tokenizedQuery)

\* if (!this.idf.has(token)) continue
SkipToken ==
    /\ InInnerLoop
    /\ tokenizedQuery[tokenIndex] \notin DOMAIN idf
    /\ tokenIndex' = tokenIndex + 1
    /\ UNCHANGED <<bmPc, corpus, query, tokenizedCorpus, docLengths, avgdl, idf,
                   tokenizedQuery, scores, docIndex>>
    /\ UNCHANGED notBM25

\* lines 132-139; the factor idf of the numerator is the logarithm whose
\* coefficient is increased
ScoreToken ==
    /\ InInnerLoop
    /\ tokenizedQuery[tokenIndex] \in DOMAIN idf
    /\ LET token == tokenizedQuery[tokenIndex]
           docLen == docLengths[docIndex]
           tf == CountOf(tokenizedCorpus[docIndex], token)
           numerator == RatMul(Num(tf), RatAdd(BM25_k1, Num(1)))
           denominator ==
               RatAdd(Num(tf),
                      RatMul(BM25_k1,
                             RatAdd(RatSub(Num(1), BM25_b),
                                    RatMul(BM25_b, RatDiv(Num(docLen), avgdl)))))
       IN  scores' = [scores EXCEPT ![docIndex][idf[token]] =
                          RatAdd(@, RatDiv(numerator, denominator))]
    /\ tokenIndex' = tokenIndex + 1
    /\ UNCHANGED <<bmPc, corpus, query, tokenizedCorpus, docLengths, avgdl, idf,
                   tokenizedQuery, docIndex>>
    /\ UNCHANGED notBM25

\* the inner loop is over: i++
NextDocument ==
    /\ bmPc = "search"
    /\ docIndex <= Len(corpus)
    /\ tokenIndex > Len(tokenizedQuery)
    /\ docIndex' = docIndex + 1
    /\ tokenIndex' = 1
    /\ UNCHANGED <<bmPc, corpus, query, tokenizedCorpus, docLengths, avgdl, idf,
                   tokenizedQuery, scores>>
    /\ UNCHANGED notBM25

\* the outer loop is over
Scored ==
    /\ bmPc = "search"
    /\ docIndex > Len(corpus)
    /\ bmPc' = "scored"
    /\ UNCHANGED <<corpus, query, tokenizedCorpus, docLengths, avgdl, idf,
                   tokenizedQuery, scores, docIndex, tokenIndex>>
    /\ UNCHANGED notBM25

\* ------------------------------------------------------------------------
\* BM25Retriever.search, lines 144-156: sort, slice, rank
\* ------------------------------------------------------------------------

\* the sign of p/q - r/s for p, r >= 0 and q, s > 0, by continued fractions
RECURSIVE CompareFrac(_, _, _, _)
CompareFrac(p, q, r, s) ==
    LET whole == p \div q
        other == r \div s
    IN  IF whole # other THEN (IF whole > other THEN 1 ELSE -1)
        ELSE IF p % q = 0 /\ r % s = 0 THEN 0
        ELSE IF p % q = 0 THEN -1
        ELSE IF r % s = 0 THEN 1
        ELSE -CompareFrac(q, p % q, s, r % s)

\* The sign of x - y for two scores, each the sum over the logarithms ln(u)
\* of coefficient * ln(u): 1, 0 or -1.  With the arguments u in descending
\* order, ln(u) is a descending positive sequence, so x >= y when no partial
\* sum of the coefficients of x is below that of y.  2 when the partial sums
\* disagree.
ScoreCompare(x, y) ==
    LET RECURSIVE Desc(_)
        Desc(S) ==
            IF S = {} THEN << >>
            ELSE LET mx == CHOOSE u \in S :
                              \A v \in S : CompareFrac(u[1], u[2], v[1], v[2]) >= 0
                 IN  <<mx>> \o Desc(S \ {mx})
        us == Desc(DOMAIN x)
        RECURSIVE Partial(_, _)
        Partial(z, n) == IF n = 0 THEN <<0, 1>> ELSE RatAdd(Partial(z, n - 1), z[us[n]])
        signs == { CompareFrac(Partial(x, n)[1], Partial(x, n)[2],
                               Partial(y, n)[1], Partial(y, n)[2]) : n \in 1..Len(us) }
    IN  IF signs \subseteq {0} THEN 0
        ELSE IF signs \subseteq {0, 1} THEN 1
        ELSE IF signs \subseteq {0, -1} THEN -1
        ELSE 2

\* the comparator with the operands the other way round: ascending
SortComparatorAscending(x, y) == ScoreCompare(x.score, y.score)

\* (a, b) => b.score - a.score, line 150
SortComparator(x, y) == ScoreCompare(y.score, x.score)

\* lines 144-156.  Array.prototype.sort is stable and puts x before y when the
\* comparator is negative; the sorted array is the arrangement of the entries
\* that does so.
SearchReturns ==
    /\ bmPc = "scored"
    /\ rankPc = "pending"
    /\ LET N == Len(corpus)
           mapped == [index \in 1..N |->
                        [document |-> corpus[index], score |-> scores[index],
                         originalIndex |-> index]]
       IN  \E order \in { f \in [1..N -> 1..N] : \A d, e \in 1..N : f[d] = f[e] => d = e } :
               /\ \A d, e \in 1..N :
                     d < e =>
                        LET sign == SortComparator(mapped[order[d]], mapped[order[e]])
                        IN  \/ sign \in {-1, 2}
                            \/ sign = 0 /\ order[d] < order[e]
               /\ LET sliced == Slice([d \in 1..N |-> mapped[order[d]]], 0, topK)
                  IN  results' = [rank \in 1..Len(sliced) |->
                                    [document |-> sliced[rank].document,
                                     score |-> sliced[rank].score,
                                     rank |-> rank]]
    /\ rankPc' = "returned"
    /\ UNCHANGED topK
    /\ UNCHANGED notRank

NextBM25 ==
    \/ Constructor
    \/ SearchBegins
    \/ SkipToken
    \/ ScoreToken
    \/ NextDocument
    \/ Scored
    \/ SearchReturns

SpecBM25 == InitBM25 /\ [][NextBM25]_vars /\ WF_vars(NextBM25)

\* C6: when search has scored the documents, the score of every document d is
\* the Okapi BM25 sum over the query tokens t that occur in the corpus of
\* idf(t) * tf(t,d) * (k1 + 1) / (tf(t,d) + k1 * (1 - b + b * |d| / avgdl)) with
\* k1 = 1.5, b = 0.75, avgdl the mean token count and
\* idf(t) = ln((N - n(t) + 0.5) / (n(t) + 0.5) + 1).  With total the sum of the
\* token counts, the weight of idf(t) is, in integers,
\* 20 tf total / (8 tf total + 3 total + 9 |d| N), and the argument of the
\* logarithm is (2N + 2) / (2 n(t) + 1).
C6_TextbookScores ==
    bmPc = "scored" =>
        LET N == Len(corpus)
            len(d) == Len(tokenizedCorpus[d])
            total == SumSeq([d \in 1..N |-> len(d)])
            tf(t, d) == Cardinality({ p \in 1..len(d) : tokenizedCorpus[d][p] = t })
            n(t) == Cardinality({ d \in 1..N : tf(t, d) > 0 })
            idfOf(t) == Rat(2 * N + 2, 2 * n(t) + 1)
            weight(t, d) ==
                Rat(20 * tf(t, d) * total,
                    8 * tf(t, d) * total + 3 * total + 9 * len(d) * N)
            RECURSIVE sum(_, _, _)
            sum(d, x, k) ==
                IF k = 0 THEN <<0, 1>>
                ELSE IF n(tokenizedQuery[k]) > 0 /\ idfOf(tokenizedQuery[k]) = x
                       THEN RatAdd(sum(d, x, k - 1), weight(tokenizedQuery[k], d))
                       ELSE sum(d, x, k - 1)
            logs == UNION { { idfOf(tokenizedCorpus[d][p]) : p \in 1..len(d) } : d \in 1..N }
        IN  /\ Len(scores) = N
            /\ \A d \in 1..N :
                  /\ DOMAIN scores[d] = logs
                  /\ \A x \in logs : scores[d][x] = sum(d, x, Len(tokenizedQuery))

C6_Witness ==
    /\ bmPc = "scored"
    /\ Len(corpus) >= 2
    /\ \E d \in 1..Len(corpus) :
          /\ docLengths[d] # docLengths[1]
          /\ Cardinality(DOMAIN scores[d]) >= 2
          /\ \E k \in 1..Len(tokenizedQuery) :
                /\ tokenizedQuery[k] \in DOMAIN idf
                /\ CountOf(tokenizedCorpus[d], tokenizedQuery[k]) >= 2
                /\ scores[d][idf[tokenizedQuery[k]]][1] > 0

\* ------------------------------------------------------------------------
\* rrfFuse (search_hybrid.ts:70-92, the same function in part_014:203-224)
\* ------------------------------------------------------------------------

DefaultK == 60

\* document texts; the last two are also names of members of Object.prototype
RRFDocuments == {"doc one", "doc two", "constructor", "__proto__"}

\* what `scores` = {} inherits: name -> type of the inherited value
ObjectPrototype == [constructor |-> "function", __proto__ |-> "object"]

\* JavaScript values: a number carries its ratio, any other value only its type
Number(x) == [type |-> "number", val |-> x]
Other(type) == [type |-> type, val |-> NaN]

HasOwn(obj, key) == \E p \in 1..Len(obj) : obj[p].key = key

\* scores[key]: the own property, else the inherited one, else undefined
Get(obj, key) ==
    IF HasOwn(obj, key)
      THEN (CHOOSE e \in { obj[p] : p \in 1..Len(obj) } : e.key = key).value
      ELSE IF key \in DOMAIN ObjectPrototype
             THEN Other(ObjectPrototype[key])
             ELSE Other("undefined")

\* scores[key] = value: assigning a number or a string to __proto__ goes to the
\* inherited setter, which ignores it
Put(obj, key, value) ==
    IF key = "__proto__" THEN obj
    ELSE IF HasOwn(obj, key)
           THEN [p \in 1..Len(obj) |->
                    IF obj[p].key = key THEN [key |-> key, value |-> value] ELSE obj[p]]
           ELSE Append(obj, [key |-> key, value |-> value])

\* !value
Falsy(value) ==
    \/ value.type = "undefined"
    \/ value.type = "number" /\ value.val \in {<<0, 1>>, NaN}

\* value + x for a number x: addition of numbers, else string concatenation
Plus(value, x) ==
    IF value.type = "number" THEN Number(RatAdd(value.val, x)) ELSE Other("string")

RRFItems == [document : RRFDocuments, rank : 1..MaxRank]

InitRRF ==
    /\ RerankIdle
    /\ RankIdle
    /\ FixedIdle
    /\ RunnerIdle
    /\ InjectionIdle
    /\ AgentIdle
    /\ ToolsIdle
    /\ CascadeIdle
    /\ CorpusIdle
    /\ ChainIdle
    /\ AsyncIdle
    /\ McpIdle
    /\ BM25Idle
    /\ rrfPc = "fusing"
    /\ listA \in SeqsUpTo(RRFItems, MaxListLen)
    /\ listB \in SeqsUpTo(RRFItems, MaxListLen)
    /\ rrfK = DefaultK
    /\ rrfScores = << >>
    /\ rrfPos = 0
    /\ fused = << >>

\* the callback of list.forEach, for the items of listA and then of listB
AddScore ==
    /\ rrfPc = "fusing"
    /\ rrfPos < Len(listA) + Len(listB)
    /\ LET item == (listA \o listB)[rrfPos + 1]
           initialised == IF Falsy(Get(rrfScores, item.document))
                            THEN Put(rrfScores, item.document, Number(Num(0)))
                            ELSE rrfScores
           increment == RatDiv(Num(1), RatAdd(Num(rrfK), Num(item.rank)))
       IN  rrfScores' = Put(initialised, item.document,
                            Plus(Get(initialised, item.document), increment))
    /\ rrfPos' = rrfPos + 1
    /\ UNCHANGED <<rrfPc, listA, listB, rrfK, fused>>
    /\ UNCHANGED notRRF

RatLess(x, y) == x[1] * y[2] < y[1] * x[2]

\* Array.prototype.sort with (a, b) => b.score - a.score: stable, descending
RECURSIVE SortByScore(_)
SortByScore(entries) ==
    IF entries = << >> THEN << >>
    ELSE LET rest == SortByScore(SubSeq(entries, 1, Len(entries) - 1))
             last == entries[Len(entries)]
             before == SelectSeq(rest, LAMBDA e : ~RatLess(e.score.val, last.score.val))
             after == SelectSeq(rest, LAMBDA e : RatLess(e.score.val, last.score.val))
         IN  before \o <<last>> \o after

Entries == [p \in 1..Len(rrfScores) |->
               [document |-> rrfScores[p].key, score |-> rrfScores[p].value]]

AllNumbers == \A p \in 1..Len(rrfScores) : rrfScores[p].value.type = "number"

\* Object.entries(scores).map(...).sort(...), every score a number
ReturnSorted ==
    /\ rrfPc = "fusing"
    /\ rrfPos = Len(listA) + Len(listB)
    /\ AllNumbers
    /\ fused' = SortByScore(Entries)
    /\ rrfPc' = "returned"
    /\ UNCHANGED <<listA, listB, rrfK, rrfScores, rrfPos>>
    /\ UNCHANGED notRRF

\* the same with a score that is a string: the comparator returns NaN and the
\* order of the result is left to the implementation
ReturnUnordered ==
    /\ rrfPc = "fusing"
    /\ rrfPos = Len(listA) + Len(listB)
    /\ ~AllNumbers
    /\ \E perm \in [1..Len(rrfScores) -> 1..Len(rrfScores)] :
          /\ \A p, q \in 1..Len(rrfScores) : p # q => perm[p] # perm[q]
          /\ fused' = [p \in 1..Len(rrfScores) |-> Entries[perm[p]]]
    /\ rrfPc' = "returned"
    /\ UNCHANGED <<listA, listB, rrfK, rrfScores, rrfPos>>
    /\ UNCHANGED notRRF

NextRRF ==
    \/ AddScore
    \/ ReturnSorted
    \/ ReturnUnordered

SpecRRF == InitRRF /\ [][NextRRF]_vars /\ WF_vars(NextRRF)

\* C7: rrfFuse returns exactly one entry for every distinct document of listA
\* and listB and no other entry, and the score of each entry is the sum of
\* 1 / (k + rank) over the input items that carry its document.
C7_OneEntryPerDocumentWithRRFScore ==
    rrfPc = "returned" =>
        LET items == listA \o listB
            RECURSIVE rrf(_, _)
            rrf(doc, n) ==
                IF n = 0 THEN <<0, 1>>
                ELSE IF items[n].document = doc
                       THEN RatAdd(rrf(doc, n - 1), Rat(1, rrfK + items[n].rank))
                       ELSE rrf(doc, n - 1)
        IN  /\ { fused[p].document : p \in 1..Len(fused) }
                 = { items[p].document : p \in 1..Len(items) }
            /\ \A p, q \in 1..Len(fused) : fused[p].document = fused[q].document => p = q
            /\ \A p \in 1..Len(fused) :
                  fused[p].score = Number(rrf(fused[p].document, Len(items)))


\* ------------------------------------------------------------------------
\* cascadedClassification (part_008:115-173), parseResponse (180-208),
\* extractSentiment (215-230)
\* ------------------------------------------------------------------------

CHEAP_MODEL == "gpt-3.5-turbo"
EXPENSIVE_MODEL == "gpt-4-turbo"
DefaultConfidenceThreshold == <<17, 20>>     \* 0.85

\* a response is a sequence of words; toLowerCase of the words used here
LowerCaseWord(w) ==
    CASE w = "Positive" -> "positive"
      [] w = "Negative" -> "negative"
      [] w = "Confidence:" -> "confidence:"
      [] OTHER -> w

\* parseFloat of the texts that /([0-9.]+)/ can capture here
parseFloat(text) ==
    CASE text = "0.9" -> <<9, 10>>
      [] text = "0.42" -> <<21, 50>>
      [] text = "0.85" -> <<17, 20>>
      [] text = "1.5" -> <<3, 2>>
      [] text = "7" -> <<7, 1>>
      [] OTHER -> NaN                          \* "."

\* lowerContent.includes(...) in the order positive, negative, neutral
extractSentiment(content) ==
    LET has(word) == \E p \in 1..Len(content) : LowerCaseWord(content[p]) = word
    IN  IF has("positive") THEN "positive"
        ELSE IF has("negative") THEN "negative"
        ELSE "neutral"

\* Math.max(0, Math.min(1, x)): NaN stays NaN
Clamp01(x) ==
    IF ~IsFinite(x) THEN NaN
    ELSE IF RatLess(x, <<0, 1>>) THEN <<0, 1>>
    ELSE IF RatLess(<<1, 1>>, x) THEN <<1, 1>>
    ELSE x

\* response.match(/confidence:\s*([0-9.]+)|([0-9]\.[0-9]+)/i): the leftmost
\* position where "confidence:" is followed by digits and dots, or where a
\* decimal d.d stands
parseResponse(content) ==
    LET numerals == {"0.9", "0.42", "0.85", "1.5", "7", "."}
        decimals == {"0.9", "0.42", "0.85", "1.5"}
        labelled(p) == /\ LowerCaseWord(content[p]) = "confidence:"
                       /\ p < Len(content)
                       /\ content[p + 1] \in numerals
        matches == { p \in 1..Len(content) : labelled(p) \/ content[p] \in decimals }
        first == CHOOSE p \in matches : \A q \in matches : p <= q
        captured == IF labelled(first) THEN content[first + 1] ELSE content[first]
    IN  [sentiment |-> extractSentiment(content),
         confidence |-> IF matches = {} THEN <<7, 10>> ELSE Clamp01(parseFloat(captured))]

CheapContents ==
    { << >>,
      <<"neutral">>,
      <<"sentiment:", "Positive", "confidence:", "0.9">>,
      <<"Negative", "Confidence:", "0.42">>,
      <<"positive", "confidence:", ".">>,
      <<"positive", "confidence:", "7">>,
      <<"neutral", "0.85">>,
      <<"confidence:", "maybe", "1.5">> }

ExpensiveContents == { << >>, <<"Negative">>, <<"neutral", "Positive">> }

ConfidenceThresholds == { DefaultConfidenceThreshold, <<0, 1>>, <<1, 2>>, <<7, 10>>, <<1, 1>> }

\* parsed.confidence > confidenceThreshold
AcceptsStrictly(confidence, threshold) ==
    IsFinite(confidence) /\ IsFinite(threshold) /\ RatLess(threshold, confidence)

\* parsed.confidence >= confidenceThreshold: false when either side is NaN
Accepts(confidence, threshold) ==
    IsFinite(confidence) /\ IsFinite(threshold) /\ ~RatLess(confidence, threshold)

InitCascade ==
    /\ RerankIdle
    /\ RankIdle
    /\ FixedIdle
    /\ RunnerIdle
    /\ InjectionIdle
    /\ AgentIdle
    /\ ToolsIdle
    /\ CorpusIdle
    /\ ChainIdle
    /\ AsyncIdle
    /\ McpIdle
    /\ BM25Idle
    /\ RRFIdle
    /\ casPc = "start"
    /\ confidenceThreshold \in ConfidenceThresholds
    /\ cheapContent = << >>
    /\ parsed = [sentiment |-> "", confidence |-> <<0, 1>>]
    /\ modelCalls = << >>
    /\ result = [sentiment |-> "", model |-> ""]

\* line 125: the request to the cheap model is sent
CallCheap ==
    /\ casPc = "start"
    /\ modelCalls' = Append(modelCalls, CHEAP_MODEL)
    /\ casPc' = "cheap_called"
    /\ UNCHANGED <<confidenceThreshold, cheapContent, parsed, result>>
    /\ UNCHANGED notCascade

\* lines 133-170 up to the next await or the return
CheapReturns ==
    /\ casPc = "cheap_called"
    /\ \E content \in CheapContents :
          /\ cheapContent' = content
          /\ parsed' = parseResponse(content)
          /\ IF Accepts(parseResponse(content).confidence, confidenceThreshold)
               THEN /\ result' = [sentiment |-> parseResponse(content).sentiment,
                                  model |-> CHEAP_MODEL]
                    /\ casPc' = "returned"
                    /\ UNCHANGED modelCalls
               ELSE /\ modelCalls' = Append(modelCalls, EXPENSIVE_MODEL)
                    /\ casPc' = "expensive_called"
                    /\ UNCHANGED result
    /\ UNCHANGED confidenceThreshold
    /\ UNCHANGED notCascade

\* lines 162-172
ExpensiveReturns ==
    /\ casPc = "expensive_called"
    /\ \E content \in ExpensiveContents :
          result' = [sentiment |-> extractSentiment(content), model |-> EXPENSIVE_MODEL]
    /\ casPc' = "returned"
    /\ UNCHANGED <<confidenceThreshold, cheapContent, parsed, modelCalls>>
    /\ UNCHANGED notCascade

\* the awaited request rejects: nothing catches it
CascadeCallThrows ==
    /\ casPc \in {"cheap_called", "expensive_called"}
    /\ casPc' = "failed"
    /\ UNCHANGED <<confidenceThreshold, cheapContent, parsed, modelCalls, result>>
    /\ UNCHANGED notCascade

NextCascade ==
    \/ CallCheap
    \/ CheapReturns
    \/ ExpensiveReturns
    \/ CascadeCallThrows

SpecCascade == InitCascade /\ [][NextCascade]_vars /\ WF_vars(NextCascade)

MockLookup(keys, key) ==
    IF key \in keys THEN "object"
    ELSE IF key \in DOMAIN ObjectPrototype THEN ObjectPrototype[key]
    ELSE "undefined"

\* JSON.stringify of an object: a property whose value is a function or
\* undefined is left out
JSONStringify(object) ==
    [f \in { g \in DOMAIN object : object[g] \notin {"function", "undefined"} } |-> object[f]]

Envelope(success, data, error) ==
    [success |-> success, data |-> data, error |-> error, message |-> "string"]

InitTools ==
    /\ RerankIdle
    /\ RankIdle
    /\ FixedIdle
    /\ RunnerIdle
    /\ InjectionIdle
    /\ AgentIdle
    /\ CorpusIdle
    /\ ChainIdle
    /\ AsyncIdle
    /\ McpIdle
    /\ BM25Idle
    /\ RRFIdle
    /\ CascadeIdle
    /\ toolName = ""
    /\ toolArgs = << >>
    /\ toolResponse = << >>
    /\ toolsServed = 0

\* lines 65-107; inputs valid for searchKnowledgeBaseSchema
SearchKnowledgeBase ==
    /\ toolsServed < MaxToolCalls
    /\ \E q \in {"reset password", ""}, category \in {"none", "billing", "technical", "shipping"} :
          toolArgs' = [query |-> q, category |-> category]
    /\ toolName' = "search_knowledge_base"
    /\ toolResponse' = JSONStringify(Envelope("true", "object", "null"))
    /\ toolsServed' = toolsServed + 1
    /\ UNCHANGED notTools

\* lines 123-173; z.string().email() admits only addresses
GetCustomerInfo ==
    /\ toolsServed < MaxToolCalls
    /\ \E email \in {"alice@example.com", "bob@example.com", "carol@example.com"} :
          /\ toolArgs' = [email |-> email]
          /\ LET customer == MockLookup({"alice@example.com", "bob@example.com"}, email)
             IN  toolResponse' =
                    IF customer = "undefined"
                      THEN JSONStringify(Envelope("false", "null", "string"))
                      ELSE JSONStringify(Envelope("true", customer, "null"))
    /\ toolName' = "get_customer_info"
    /\ toolsServed' = toolsServed + 1
    /\ UNCHANGED notTools

\* lines 189-211
CreateSupportTicket ==
    /\ toolsServed < MaxToolCalls
    /\ \E priority \in {"none", "low", "medium", "high"}, subject \in {"", "Refund"} :
          toolArgs' = [customer_email |-> "alice@example.com", subject |-> subject,
                       priority |-> priority]
    /\ toolName' = "create_support_ticket"
    /\ toolResponse' = JSONStringify(Envelope("true", "object", "null"))
    /\ toolsServed' = toolsServed + 1
    /\ UNCHANGED notTools

\* lines 227-282; z.string() admits every string
CheckOrderStatus ==
    /\ toolsServed < MaxToolCalls
    /\ \E order_id \in {"ORD-12345", "ORD-67890", "ORD-00000", "", "constructor", "__proto__"} :
          /\ toolArgs' = [order_id |-> order_id]
          /\ LET order == MockLookup({"ORD-12345", "ORD-67890"}, order_id)
             IN  toolResponse' =
                    IF order = "undefined"
                      THEN JSONStringify(Envelope("false", "null", "string"))
                      ELSE JSONStringify(Envelope("true", order, "null"))
    /\ toolName' = "check_order_status"
    /\ toolsServed' = toolsServed + 1
    /\ UNCHANGED notTools

NextTools ==
    \/ SearchKnowledgeBase
    \/ GetCustomerInfo
    \/ CreateSupportTicket
    \/ CheckOrderStatus

SpecTools == InitTools /\ [][NextTools]_vars

\* C12: every response of the four tools is a JSON object with exactly the
\* fields success, data, error and message; success = true implies error = null
\* and data not null; success = false implies data = null and error not null.
C12_ResponseEnvelope ==
    toolName # "" =>
        /\ DOMAIN toolResponse = {"success", "data", "error", "message"}
        /\ toolResponse["success"] = "true" =>
              (toolResponse["error"] = "null" /\ toolResponse["data"] # "null")
        /\ toolResponse["success"] = "false" =>
              (toolResponse["data"] = "null" /\ toolResponse["error"] # "null")


\* ------------------------------------------------------------------------
\* runWeatherAgent (weather_agent.ts:42-102)
\* ------------------------------------------------------------------------

\* the tool calls a response can request: ids call_1, call_2, ... in order
RequestedToolCalls ==
    LET args == [city : {"San Francisco", "Tokyo"}, units : {"none", "celsius", "kelvin"}]
        ids == <<"call_1", "call_2", "call_3">>
    IN  { [p \in 1..Len(q) |-> [id |-> ids[p], city |-> q[p].city, units |-> q[p].units]] :
            q \in SeqsUpTo(args, MaxRequested) }

\* the function given to tool(...): lines 51-65
weatherTool(toolCall) ==
    [content |-> [city |-> toolCall.city,
                  units |-> IF toolCall.units = "none" THEN "celsius" ELSE toolCall.units],
     tool_call_id |-> toolCall.id]

InitAgent ==
    /\ RerankIdle
    /\ RankIdle
    /\ FixedIdle
    /\ RunnerIdle
    /\ InjectionIdle
    /\ CorpusIdle
    /\ ChainIdle
    /\ AsyncIdle
    /\ McpIdle
    /\ BM25Idle
    /\ RRFIdle
    /\ CascadeIdle
    /\ ToolsIdle
    /\ agentPc = "start"
    /\ tool_calls = << >>
    /\ executedCalls = {}
    /\ messages = << >>
    /\ modelInvocations = 0

\* line 80: modelWithTools.invoke(userQuery) is sent
InvokeModel ==
    /\ agentPc = "start"
    /\ modelInvocations' = modelInvocations + 1
    /\ agentPc' = "invoked"
    /\ UNCHANGED <<tool_calls, executedCalls, messages>>
    /\ UNCHANGED notAgent

\* lines 80-88 and 100-101: the first response arrives
FirstResponse ==
    /\ agentPc = "invoked"
    /\ \E requested \in RequestedToolCalls :
          /\ tool_calls' = requested
          /\ agentPc' = IF Len(requested) > 0 THEN "tool_running" ELSE "returned"
    /\ UNCHANGED <<executedCalls, messages, modelInvocations>>
    /\ UNCHANGED notAgent

\* lines 87-95: weatherTool.invoke(response.tool_calls[0]) returns and the
\* second request is sent
ToolReturns ==
    /\ agentPc = "tool_running"
    /\ LET toolCall == tool_calls[1]
           toolResult == weatherTool(toolCall)
       IN  /\ executedCalls' = executedCalls \cup {toolCall.id}
           /\ messages' = << [role |-> "user"],
                             [role |-> "assistant", tool_calls |-> tool_calls],
                             [role |-> "tool", content |-> toolResult.content,
                              tool_call_id |-> toolCall.id] >>
    /\ modelInvocations' = modelInvocations + 1
    /\ agentPc' = "final_invoked"
    /\ UNCHANGED tool_calls
    /\ UNCHANGED notAgent

\* line 97
FinalResponse ==
    /\ agentPc = "final_invoked"
    /\ agentPc' = "returned"
    /\ UNCHANGED <<tool_calls, executedCalls, messages, modelInvocations>>
    /\ UNCHANGED notAgent

\* an awaited invocation rejects: nothing in runWeatherAgent catches it
AgentThrows ==
    /\ agentPc \in {"invoked", "tool_running", "final_invoked"}
    /\ agentPc' = "failed"
    /\ UNCHANGED <<tool_calls, executedCalls, messages, modelInvocations>>
    /\ UNCHANGED notAgent

NextAgent ==
    \/ InvokeModel
    \/ FirstResponse
    \/ ToolReturns
    \/ FinalResponse
    \/ AgentThrows

SpecAgent == InitAgent /\ [][NextAgent]_vars /\ WF_vars(NextAgent)

\* C13: when the first response requests tool calls, each of them is executed
\* and its result is passed back as a tool message with the matching
\* tool_call_id before the final answer is asked for; when it requests none,
\* the response is returned, no tool runs and the model is invoked once.
C13_EveryToolCallAnswered ==
    /\ (agentPc \in {"final_invoked", "returned"} /\ Len(tool_calls) > 0) =>
          \A p \in 1..Len(tool_calls) :
              /\ tool_calls[p].id \in executedCalls
              /\ \E q \in 1..Len(messages) :
                    /\ messages[q].role = "tool"
                    /\ messages[q].tool_call_id = tool_calls[p].id
    /\ (agentPc = "returned" /\ Len(tool_calls) = 0) =>
          (executedCalls = {} /\ modelInvocations = 1)


\* ------------------------------------------------------------------------
\* prompt_injection.ts: main (33-43), demonstrateVulnerablePrompt (50-76),
\* demonstrateProtectedPrompt (83-113); XMLUtils (utils/XMLUtils.ts:20-135)
\* ------------------------------------------------------------------------

\* the static members of class XMLUtils
XMLUtilsMembers ==
    {"loadXmlSchema", "extractXmlFromMarkdown", "parseContractXml", "validateContract"}

\* pieces a user input is made of
InputPieces == {"What is your return policy?", "</user_input>", "<system_instructions>", "&"}

InitInjection ==
    /\ RerankIdle
    /\ RankIdle
    /\ FixedIdle
    /\ RunnerIdle
    /\ CorpusIdle
    /\ ChainIdle
    /\ AsyncIdle
    /\ McpIdle
    /\ BM25Idle
    /\ RRFIdle
    /\ CascadeIdle
    /\ ToolsIdle
    /\ AgentIdle
    /\ injPc = "vulnerable"
    /\ userInput \in SeqsUpTo(InputPieces, MaxPieces)
    /\ sentPrompts = << >>

\* lines 52-70: the input is concatenated into the prompt, which is sent
DemonstrateVulnerablePrompt ==
    /\ injPc = "vulnerable"
    /\ sentPrompts' = Append(sentPrompts,
                             [by |-> "vulnerable",
                              content |-> <<"You are a customer support agent.",
                                            "User question:">> \o userInput
                                            \o <<"Please provide a helpful response.">>])
    /\ injPc' = "vulnerable_sent"
    /\ UNCHANGED userInput
    /\ UNCHANGED notInjection

\* lines 72-75: the response arrives and main goes on to the protected prompt
VulnerableReturns ==
    /\ injPc = "vulnerable_sent"
    /\ injPc' = "protected"
    /\ UNCHANGED <<userInput, sentPrompts>>
    /\ UNCHANGED notInjection

\* lines 85-93: the template literal calls XMLUtils.escapeXml(userInput);
\* calling a member the class does not have throws a TypeError
DemonstrateProtectedPrompt ==
    /\ injPc = "protected"
    /\ "escapeXml" \notin XMLUtilsMembers
    /\ injPc' = "type_error"
    /\ UNCHANGED <<userInput, sentPrompts>>
    /\ UNCHANGED notInjection

NextInjection ==
    \/ DemonstrateVulnerablePrompt
    \/ VulnerableReturns
    \/ DemonstrateProtectedPrompt

SpecInjection == InitInjection /\ [][NextInjection]_vars /\ WF_vars(NextInjection)

\* C14: demonstrateProtectedPrompt sanitizes the input with XMLUtils.escapeXml
\* (the call is made and returns) and every prompt it sends holds exactly one
\* opening and one closing user_input tag, the raw markup of the input being
\* absent.
C14_InputSanitized ==
    /\ injPc # "type_error"
    /\ \A p \in 1..Len(sentPrompts) :
          sentPrompts[p].by = "protected" =>
              LET content == sentPrompts[p].content
              IN  /\ Cardinality({ q \in 1..Len(content) : content[q] = "<user_input>" }) = 1
                  /\ Cardinality({ q \in 1..Len(content) : content[q] = "</user_input>" }) = 1


\* ------------------------------------------------------------------------
\* run.ts (part_000:281-368)
\* ------------------------------------------------------------------------

\* readConfigFile: TRUE when it returns a file path, FALSE when it throws
readConfigFile(config) == config = "ok"

InitRunner ==
    /\ RerankIdle
    /\ RankIdle
    /\ FixedIdle
    /\ CorpusIdle
    /\ ChainIdle
    /\ AsyncIdle
    /\ McpIdle
    /\ BM25Idle
    /\ RRFIdle
    /\ CascadeIdle
    /\ ToolsIdle
    /\ AgentIdle
    /\ InjectionIdle
    /\ runPc = "start"
    /\ argvFile \in BOOLEAN
    /\ configFile \in {"missing", "empty", "no_file", "empty_path", "ok"}
    /\ hasPackageJson \in BOOLEAN
    /\ installFails \in BOOLEAN
    /\ commands = << >>
    /\ runExit = -1

\* main, lines 347-357: the file path comes from argv or from env/run.conf
ReadFilePath ==
    /\ runPc = "start"
    /\ runPc' = IF argvFile \/ readConfigFile(configFile) THEN "execute" ELSE "caught"
    /\ UNCHANGED <<argvFile, configFile, hasPackageJson, installFails, commands, runExit>>
    /\ UNCHANGED notRunner

\* executeFile, lines 335-337
ExecuteFile ==
    /\ runPc = "execute"
    /\ commands' = Append(commands, "npx tsx")
    /\ runPc' = "executing"
    /\ UNCHANGED <<argvFile, configFile, hasPackageJson, installFails, runExit>>
    /\ UNCHANGED notRunner

\* execSync returns: executeFile and main return, the process ends
ExecSyncReturns ==
    /\ runPc = "executing"
    /\ runExit' = 0
    /\ runPc' = "exited"
    /\ UNCHANGED <<argvFile, configFile, hasPackageJson, installFails, commands>>
    /\ UNCHANGED notRunner

\* execSync throws (the child failed): lines 338-341
ExecSyncThrows ==
    /\ runPc = "executing"
    /\ runExit' = 1
    /\ runPc' = "exited"
    /\ UNCHANGED <<argvFile, configFile, hasPackageJson, installFails, commands>>
    /\ UNCHANGED notRunner

\* main's catch, lines 361-364
MainCatch ==
    /\ runPc = "caught"
    /\ runExit' = 1
    /\ runPc' = "exited"
    /\ UNCHANGED <<argvFile, configFile, hasPackageJson, installFails, commands>>
    /\ UNCHANGED notRunner

NextRunner ==
    \/ ReadFilePath
    \/ ExecuteFile
    \/ ExecSyncReturns
    \/ ExecSyncThrows
    \/ MainCatch

SpecRunner == InitRunner /\ [][NextRunner]_vars /\ WF_vars(NextRunner)

\* C15: when the directory of the target file holds a package.json, run.ts
\* runs npm install there before it executes the file, and a failed
\* installation does not keep the file from being executed.
C15_InstallsBeforeExecuting ==
    \A p \in 1..Len(commands) :
        (commands[p] = "npx tsx" /\ hasPackageJson) =>
            \E q \in 1..(p - 1) : commands[q] = "npm install"


\* C16: semanticChunking terminates, with its default parameters and with
\* those of exampleSemantic: every iteration of its while loop moves the scan
\* position strictly forward.
C16_PositionAdvances ==
    [][SemanticChunkingBody => currentPos' > currentPos]_vars


\* ------------------------------------------------------------------------
\* fixedSizeChunking (chunking_methods.ts:11-31)
\* ------------------------------------------------------------------------

\* chunks is capped: no call within the bounds that returns pushes more than
\* one chunk per character
MaxFixedChunks == MaxTextLen + 1

InitFixed ==
    /\ RerankIdle
    /\ RankIdle
    /\ CorpusIdle
    /\ ChainIdle
    /\ AsyncIdle
    /\ McpIdle
    /\ BM25Idle
    /\ RRFIdle
    /\ CascadeIdle
    /\ ToolsIdle
    /\ AgentIdle
    /\ InjectionIdle
    /\ RunnerIdle
    /\ fixedPc = "loop"
    /\ fixedText \in { [p \in 1..n |-> p - 1] : n \in 0..MaxTextLen }
    /\ fixedChunkSize \in 1..MaxChunkSize
    /\ fixedOverlap \in 0..MaxOverlap
    /\ start = 0
    /\ chunks = << >>

\* one iteration of the while loop, lines 23-28
FixedLoopBody ==
    /\ fixedPc = "loop"
    /\ start < Len(fixedText)
    /\ Len(chunks) < MaxFixedChunks
    /\ chunks' = Append(chunks, Slice(fixedText, start, start + fixedChunkSize))
    /\ start' = start + (fixedChunkSize - fixedOverlap)
    /\ UNCHANGED <<fixedPc, fixedText, fixedChunkSize, fixedOverlap>>
    /\ UNCHANGED notFixed

\* the while condition fails: return chunks, line 30
FixedReturns ==
    /\ fixedPc = "loop"
    /\ ~(start < Len(fixedText))
    /\ fixedPc' = "returned"
    /\ UNCHANGED <<fixedText, fixedChunkSize, fixedOverlap, start, chunks>>
    /\ UNCHANGED notFixed

NextFixed ==
    \/ FixedLoopBody
    \/ FixedReturns

SpecFixed == InitFixed /\ [][NextFixed]_vars

\* C17: fixedSizeChunking terminates for every text, chunkSize >= 1 and
\* overlap >= 0 (every iteration moves start strictly towards the end of the
\* text), and chunk i of the list it returns is
\* text[i*(chunkSize - overlap), i*(chunkSize - overlap) + chunkSize), has at
\* most chunkSize characters, starts overlap characters before the end of
\* the window of chunk i - 1, and every character is in some chunk.
C17_ReturnsTheWindows ==
    [][ /\ FixedLoopBody => start' > start
        /\ FixedReturns =>
             LET stride == fixedChunkSize - fixedOverlap
             IN  /\ \A n \in 1..Len(chunks) :
                      /\ chunks[n] = Slice(fixedText, (n - 1) * stride,
                                           (n - 1) * stride + fixedChunkSize)
                      /\ Len(chunks[n]) <= fixedChunkSize
                      /\ n > 1 => (n - 2) * stride + fixedChunkSize - (n - 1) * stride
                                      = fixedOverlap
                 /\ \A p \in 1..Len(fixedText) :
                      \E n \in 1..Len(chunks) :
                          \E q \in 1..Len(chunks[n]) : chunks[n][q] = fixedText[p] ]_vars


\* C18: search(query, topK) on a corpus of N documents returns min(topK, N)
\* results; the result at position i (from 0) has rank i + 1; scores do not
\* increase along the list; every result is a document of the corpus with the
\* score computed for that document, no document twice; and no document left
\* out has a strictly higher score than a returned one.
C18_RankedTopK ==
    rankPc = "returned" =>
        LET N == Len(corpus)
        IN  /\ Len(results) = Min(topK, N)
            /\ \A r \in 1..Len(results) : results[r].rank = r
            /\ \A r, s \in 1..Len(results) :
                  r < s => ScoreCompare(results[r].score, results[s].score) \in {0, 1}
            /\ \E from \in [1..Len(results) -> 1..N] :
                  /\ \A r, s \in 1..Len(results) : from[r] = from[s] => r = s
                  /\ \A r \in 1..Len(results) :
                        /\ results[r].document = corpus[from[r]]
                        /\ results[r].score = scores[from[r]]
                  /\ \A d \in 1..N :
                        (\A r \in 1..Len(results) : from[r] # d) =>
                            \A r \in 1..Len(results) :
                                ScoreCompare(scores[d], results[r].score) \in {0, -1}

\* the second document scored strictly higher than the first and topK cut
\* the first off
C18_Witness ==
    /\ rankPc = "returned"
    /\ Len(corpus) = 2
    /\ topK = 1
    /\ ScoreCompare(scores[2], scores[1]) = 1
    /\ results[1].document = corpus[2]
    /\ corpus[2] # corpus[1]


\* C19: on a non-empty corpus, whatever the query, search never divides by an
\* average document length of zero when it computes the contribution of a
\* term (line 137); every score, and so every returned score, is finite and
\* >= 0: a sum of coefficients >= 0 times logarithms of arguments > 1; and the
\* score of a document is > 0 exactly when the document contains a token of
\* the query.
C19_ScoresSafe ==
    LET Safe(score) ==
            \A x \in DOMAIN score :
                /\ IsFinite(x) /\ x[1] > x[2]
                /\ IsFinite(score[x]) /\ score[x][1] >= 0
    IN  Len(corpus) >= 1 =>
            /\ (InInnerLoop /\ tokenizedQuery[tokenIndex] \in DOMAIN idf) =>
                   (IsFinite(avgdl) /\ avgdl[1] > 0)
            /\ bmPc = "scored" =>
                   \A d \in 1..Len(corpus) :
                       /\ Safe(scores[d])
                       /\ (\E x \in DOMAIN scores[d] : scores[d][x][1] > 0)
                              <=> (\E n \in 1..Len(tokenizedQuery) :
                                       Includes(tokenizedCorpus[d], tokenizedQuery[n]))
            /\ rankPc = "returned" =>
                   \A r \in 1..Len(results) : Safe(results[r].score)

\* a document without tokens next to one that holds a token of the query,
\* and a query token that is not in the corpus
C19_Witness ==
    /\ rankPc = "returned"
    /\ Len(results) = 2
    /\ \E d, e \in 1..Len(corpus) :
          /\ docLengths[d] = 0
          /\ \E x \in DOMAIN scores[e] : scores[e][x][1] > 0
    /\ \E n \in 1..Len(tokenizedQuery) : tokenizedQuery[n] \notin DOMAIN idf


\* ------------------------------------------------------------------------
\* rerankWithCrossEncoder (cross_encoder_reranking.ts:154-190)
\* ------------------------------------------------------------------------

\* An embedding is a unit vector; it is given by a non-zero integer vector of
\* its direction (the cosine does not depend on the length).
Directions == { <<1, 0>>, <<1, 1>>, <<0, 1>>, <<-1, 1>> }

\* cosineSimilarity, lines 123-128.  The number c = dot / (|a| |b|) is kept as
\* sgn(c) c^2 = sgn(dot) dot^2 / (|a|^2 |b|^2), which orders as c does; 0/0 is NaN.
cosineSimilarity(a, b) ==
    LET Dot(x, y) == SumSeq([p \in 1..Len(x) |-> x[p] * y[p]])
        dotProduct == Dot(a, b)
    IN  Rat((IF dotProduct < 0 THEN -1 ELSE 1) * dotProduct * dotProduct,
            Dot(a, a) * Dot(b, b))

\* the values in the order in which the promises settled
PromiseAllByArrival(promises, order) ==
    [p \in 1..Len(order) |-> promises[order[p]].embedding]

\* Promise.all(embeddingPromises): the value of promise p at index p
PromiseAll(promises, order) == [p \in 1..Len(order) |-> promises[p].embedding]

\* a request and what it settled with
Settled(state, embedding) == [state |-> state, embedding |-> embedding]

InitRerank ==
    /\ CorpusIdle
    /\ ChainIdle
    /\ AsyncIdle
    /\ McpIdle
    /\ BM25Idle
    /\ RRFIdle
    /\ CascadeIdle
    /\ ToolsIdle
    /\ AgentIdle
    /\ InjectionIdle
    /\ RunnerIdle
    /\ FixedIdle
    /\ RankIdle
    /\ rerankPc = "start"
    /\ candidates \in { [p \in 1..Len(q) |-> [docIdx |-> q[p], document |-> <<"doc", q[p]>>]] :
                          q \in { s \in SeqsUpTo(0..MaxCandidates, MaxCandidates) :
                                    \A d, e \in 1..Len(s) : s[d] = s[e] => d = e } }
    /\ responses = [r \in 0..Len(candidates) |-> Settled("unsent", << >>)]
    /\ arrival = << >>
    /\ reranked = << >>

\* lines 162-171: candidates.map starts one request per candidate, then the
\* request for the query is made and awaited
IssueRequests ==
    /\ rerankPc = "start"
    /\ responses' = [r \in 0..Len(candidates) |-> Settled("pending", << >>)]
    /\ rerankPc' = "await_query"
    /\ UNCHANGED <<candidates, arrival, reranked>>
    /\ UNCHANGED notRerank

\* openai.embeddings.create of request r settles, with an embedding or rejected
EmbeddingSettles(r) ==
    /\ r \in DOMAIN responses
    /\ responses[r].state = "pending"
    /\ \E outcome \in { Settled("fulfilled", e) : e \in Directions }
                          \cup { Settled("rejected", << >>) } :
          responses' = [responses EXCEPT ![r] = outcome]
    /\ arrival' = IF r = 0 THEN arrival ELSE Append(arrival, r)
    /\ UNCHANGED <<rerankPc, candidates, reranked>>
    /\ UNCHANGED notRerank

\* line 171-175: the await of the query's embedding resumes
QueryEmbeddingAwaited ==
    /\ rerankPc = "await_query"
    /\ responses[0].state = "fulfilled"
    /\ rerankPc' = "await_all"
    /\ UNCHANGED <<candidates, responses, arrival, reranked>>
    /\ UNCHANGED notRerank

\* lines 177-189: Promise.all fulfils, the candidates are scored and sorted.
\* Array.prototype.sort is stable and puts x before y when the comparator
\* b.rerankScore - a.rerankScore is negative.
RerankReturns ==
    /\ rerankPc = "await_all"
    /\ \A r \in 1..Len(candidates) : responses[r].state = "fulfilled"
    /\ LET n == Len(candidates)
           queryEmbedding == responses[0].embedding
           combinedEmbeddings == PromiseAll(responses, arrival)
           scoredCandidates ==
               [idx \in 1..n |->
                  [docIdx |-> candidates[idx].docIdx,
                   document |-> candidates[idx].document,
                   rerankScore |-> cosineSimilarity(queryEmbedding, combinedEmbeddings[idx])]]
       IN  \E order \in { f \in [1..n -> 1..n] : \A d, e \in 1..n : f[d] = f[e] => d = e } :
               /\ \A d, e \in 1..n :
                     d < e =>
                        LET x == scoredCandidates[order[d]].rerankScore
                            y == scoredCandidates[order[e]].rerankScore
                        IN  \/ RatLess(y, x)
                            \/ x = y /\ order[d] < order[e]
               /\ reranked' = [d \in 1..n |-> scoredCandidates[order[d]]]
    /\ rerankPc' = "returned"
    /\ UNCHANGED <<candidates, responses, arrival>>
    /\ UNCHANGED notRerank

\* an awaited request, or one of those of Promise.all, was rejected: the
\* await throws
RerankThrows ==
    /\ \/ rerankPc = "await_query" /\ responses[0].state = "rejected"
       \/ rerankPc = "await_all" /\ \E r \in 1..Len(candidates) : responses[r].state = "rejected"
    /\ rerankPc' = "failed"
    /\ UNCHANGED <<candidates, responses, arrival, reranked>>
    /\ UNCHANGED notRerank

NextRerank ==
    \/ IssueRequests
    \/ \E r \in 0..MaxCandidates : EmbeddingSettles(r)
    \/ QueryEmbeddingAwaited
    \/ RerankReturns
    \/ RerankThrows

SpecRerank == InitRerank /\ [][NextRerank]_vars

\* C20: whatever the order in which the embedding requests complete, the
\* array rerankWithCrossEncoder returns is a permutation of the candidates
\* (none lost, none twice), each with the cosine similarity between the
\* query's embedding and the embedding returned for that candidate's own
\* request as rerankScore, in order of non-increasing rerankScore.
C20_OwnEmbeddingSorted ==
    rerankPc = "returned" =>
        LET n == Len(candidates)
        IN  /\ Len(reranked) = n
            /\ \E from \in [1..n -> 1..n] :
                  /\ \A d, e \in 1..n : from[d] = from[e] => d = e
                  /\ \A d \in 1..n :
                        /\ reranked[d].docIdx = candidates[from[d]].docIdx
                        /\ reranked[d].document = candidates[from[d]].document
                        /\ reranked[d].rerankScore
                               = cosineSimilarity(responses[0].embedding,
                                                  responses[from[d]].embedding)
            /\ \A d, e \in 1..n :
                  d < e => ~RatLess(reranked[d].rerankScore, reranked[e].rerankScore)

\* the request of the second candidate completed first, with another
\* embedding than that of the first, and the sort put the second candidate first
C20_Witness ==
    /\ rerankPc = "returned"
    /\ Len(candidates) >= 2
    /\ arrival[1] = 2
    /\ responses[1] # responses[2]
    /\ reranked[1].docIdx = candidates[2].docIdx
    /\ RatLess(reranked[2].rerankScore, reranked[1].rerankScore)

====
